---- MODULE Spec2Model ----
(***************************************************************************)
(* A model of the relationship plugin (packages/plugin-relationship).      *)
(*                                                                         *)
(* SpecRel  : the relationship state engine,                               *)
(*            updateDetailedRelationshipStateEnhanced with its input       *)
(*            validation, state change log and retried store write.        *)
(* SpecTrim : processNewMessages of the monitoring loop, applied to a      *)
(*            history and a batch of new messages.                         *)
(*                                                                         *)
(* SpecPipe : the pipeline stages MONITOR_SOCIAL, ANALYZE_EMOTION,         *)
(*            EVALUATE_USER, DETERMINE_RESPONSE and END_INTERACTION and    *)
(*            the monitoring loop, over the relationship_contexts table.   *)
(*                                                                         *)
(* Each specification leaves the variables of the others at their initial  *)
(* values.                                                                 *)
(*                                                                         *)
(* In SpecRel numbers are scaled to integers: credibility scores are whole *)
(* points (0..10, the out of range values -1 and 11 stand for every        *)
(* invalid score), sentiments are tenths (0..10 for 0.0..1.0, -1 and 11    *)
(* invalid).  In SpecPipe scores are exact rationals.  Timestamps are in   *)
(* days, and every clock reading of a run is Now.                          *)
(***************************************************************************)
EXTENDS Integers, Sequences, FiniteSets, TLC

VARIABLES
    ctx,        \* SpecRel: the RelationshipContext object the caller holds
    persisted,  \* SpecRel: the record of the relationship_contexts table
    call,       \* SpecRel: the last call of the engine: arguments and outcome
    trim,       \* SpecTrim: the arguments of processNewMessages and its result
    store,      \* SpecPipe: the relationship_contexts table
    loops,      \* SpecPipe: the MonitoringState of every loop started
    records,    \* SpecPipe: the records written to the other tables, counted
    op,         \* SpecPipe: the last step: its message and outcome
    score,      \* SpecScore: the arguments of the credibility scorer and its result
    provTable,  \* SpecProv: the relationship_contexts table the provider uses
    provGet,    \* SpecProv: the last relationshipProvider.get: inputs and outcome
    calc        \* the specifications of pure functions: the arguments and the result

vars == <<ctx, persisted, call, trim, store, loops, records, op, score, provTable, provGet, calc>>
relVars == <<ctx, persisted, call>>
trimVars == <<trim>>
pipeVars == <<store, loops, records, op>>
scoreVars == <<score>>
provVars == <<provTable, provGet>>
calcVars == <<calc>>
otherVars == <<relVars, trimVars, pipeVars, scoreVars, provVars>>

----------------------------------------------------------------------------
(* Enumerations (types.ts) *)

RelationshipStates ==
    {"STRANGER", "ACQUAINTANCE", "FRIEND", "FAMILY", "BUSINESS",
     "ADVERSARY", "COMPETITOR", "PARTNER", "ENEMY", "UNKNOWN"}

EmotionalStates == {"HAPPY", "SAD", "ANGRY", "FRUSTRATED"}

SystemStates ==
    {"IDLE", "MONITORING", "EMOTION_ANALYSIS", "USER_EVALUATION", "RESPONSE_MODE"}

ResponseModes == {"INITIAL", "ONGOING", "DISENGAGEMENT"}

----------------------------------------------------------------------------
(* Bounds of the model *)

\* the greatest interaction frequency drawn
MaxFreq == 21
\* the most new messages one batch holds
MaxNew == 3
\* histories of up to HistoryLimit + MaxOver entries are drawn
MaxOver == 2
\* the clock reading of the run, in days; older timestamps are smaller
Now == 200
\* the most monitoring loops started
MaxLoops == 1
\* the most interaction_metrics records written
MaxRecords == 2
\* SpecMonitor: the most monitoring loops started in one behaviour
MaxStarts == 2
\* a call is started only while the state change log is shorter than this
MaxLog == 2
\* SpecFixed: the most evaluations of one context
MaxEvaluations == 5
\* SpecKeys: the most handler invocations of one behaviour
MaxInvocations == 2
\* SpecEmotion: the most lexicon words of one emotion in a text
MaxWords == 2
\* SpecEmotion: the most matches of one intensifier pattern in a text
MaxMatches == 2
\* SpecConfidence: the longest list of scores
MaxScores == 3
\* SpecAnalyze: the most failing attempts of a request to the message store
MaxFails == 4
\* SpecBuckets: the longest history of mixed dates and emotions
MaxBucketHistory == 3
\* SpecMetrics: the longest history of mixed emotions
MaxHistory == 4
\* SpecMetrics: the longest history
MaxLongHistory == 11
\* SpecScore: the oldest account, in days
MaxAccountAge == 3650
\* SpecScore: the most past interactions
MaxPast == 60
\* SpecScore: the longest time since the last interaction, in days
MaxIdleDays == 90

(* Program constants *)

\* validateInputs: credibility must lie in [CredMin, CredMax]
CredMin == 0
CredMax == 10
\* validateInputs: sentiment must lie in [0, 1]; in tenths
SentMin == 0
SentMax == 10
\* retryOperation's defaults
MaxRetries == 3
RetryDelay == 1000
\* processNewMessages keeps the last HistoryLimit interactions
HistoryLimit == 100
\* monitor.ts: the failed runs of the loop before recovery is attempted
MAX_RETRY_ATTEMPTS == 3
\* monitor.ts: DEFAULT_RECOVERY_OPTIONS
RecoveryMaxAttempts == 3
RecoveryBackoffMs == 1000
RecoveryMaxBackoffMs == 5000

----------------------------------------------------------------------------
(* Inputs *)

CredValues == (CredMin - 1)..(CredMax + 1)
SentValues == (SentMin - 1)..(SentMax + 1)
\* the thresholds of the transition table, a value below each, and MaxFreq
FreqValues == {0, 4, 5, 14, 15, 19, 20, MaxFreq}

\* a metrics argument; present = FALSE is a missing (null) argument
NoMetrics ==
    [present |-> FALSE, credibilityScore |-> 0,
     interactionFrequency |-> 0, averageSentiment |-> 0]

MetricsArgs ==
    {NoMetrics} \cup
    [present : {TRUE}, credibilityScore : CredValues,
     interactionFrequency : FreqValues, averageSentiment : SentValues]

\* the context the test helper builds
createTestContext(state) ==
    [userId |-> "u1",
     currentState |-> "IDLE",
     emotionalState |-> "HAPPY",
     relationshipState |-> state,
     responseMode |-> "INITIAL",
     credibilityScore |-> 5,
     lastInteraction |-> Now,
     interactionHistory |-> <<>>,
     stateChangeLog |-> <<>>]

----------------------------------------------------------------------------
(* detailedTransitionEnhanced.ts *)

\* "ok", or the error validateInputs throws
validateInputsNoSentiment(ctxPresent, m) ==
    IF ~ctxPresent \/ ~m.present THEN "Invalid input"
    ELSE IF m.credibilityScore < CredMin \/ m.credibilityScore > CredMax
         THEN "Invalid credibility score"
    ELSE "ok"

validateInputs(ctxPresent, m) ==
    IF ~ctxPresent \/ ~m.present THEN "Invalid input"
    ELSE IF m.credibilityScore < CredMin \/ m.credibilityScore > CredMax
         THEN "Invalid credibility score"
    ELSE IF m.averageSentiment < SentMin \/ m.averageSentiment > SentMax
         THEN "Invalid sentiment"
    ELSE "ok"

\* the context with one entry pushed to its stateChangeLog (an absent log is
\* the empty sequence: the code attaches [] before the first push)
logStateChange(c, previousState, newState, reason) ==
    [c EXCEPT !.stateChangeLog =
        Append(@, [previousState |-> previousState,
                   newState |-> newState,
                   reason |-> reason])]

\* the context with its tier set and the change logged
Transition(c, from, to, reason) ==
    logStateChange([c EXCEPT !.relationshipState = to], from, to, reason)

\* case RelationshipState.STRANGER
caseStrangerSwapped(c, m) ==
    IF m.credibilityScore >= 7 /\ m.averageSentiment >= 8
    THEN Transition(c, "STRANGER", "BUSINESS",
                    "High credibility and very positive sentiment")
    ELSE IF m.interactionFrequency >= 5 /\ m.averageSentiment > 5
    THEN Transition(c, "STRANGER", "ACQUAINTANCE",
                    "Sufficient interactions and positive sentiment")
    ELSE c

caseStranger(c, m) ==
    IF m.interactionFrequency >= 5 /\ m.averageSentiment > 5
    THEN Transition(c, "STRANGER", "ACQUAINTANCE",
                    "Sufficient interactions and positive sentiment")
    ELSE IF m.credibilityScore >= 7 /\ m.averageSentiment >= 8
    THEN Transition(c, "STRANGER", "BUSINESS",
                    "High credibility and very positive sentiment")
    ELSE c

\* case RelationshipState.ACQUAINTANCE, with the drop to STRANGER below a
\* sentiment of 0.7
caseAcquaintanceEarlyDrop(c, m) ==
    IF m.credibilityScore >= 8 /\ m.averageSentiment >= 7
    THEN Transition(c, "ACQUAINTANCE", "FRIEND",
                    "High credibility and strongly positive sentiment")
    ELSE IF m.averageSentiment < 7
    THEN Transition(c, "ACQUAINTANCE", "STRANGER",
                    "Significant drop in sentiment")
    ELSE c

\* case RelationshipState.ACQUAINTANCE
caseAcquaintance(c, m) ==
    IF m.credibilityScore >= 8 /\ m.averageSentiment >= 7
    THEN Transition(c, "ACQUAINTANCE", "FRIEND",
                    "High credibility and strongly positive sentiment")
    ELSE IF m.averageSentiment < 3
    THEN Transition(c, "ACQUAINTANCE", "STRANGER",
                    "Significant drop in sentiment")
    ELSE c

\* case RelationshipState.FRIEND, with the downgrade on the first change of a
\* context only
caseFriendFirstChangeOnly(c, m) ==
    IF m.credibilityScore >= 9 /\ m.averageSentiment >= 9
       /\ m.interactionFrequency >= 20
    THEN Transition(c, "FRIEND", "PARTNER",
                    "Exceptional metrics across all dimensions")
    ELSE IF (m.averageSentiment < 4 \/ m.credibilityScore < 6)
            /\ c.stateChangeLog = <<>>
    THEN Transition(c, "FRIEND", "ACQUAINTANCE",
                    "Significant decline in relationship metrics")
    ELSE c

caseFriend(c, m) ==
    IF m.credibilityScore >= 9 /\ m.averageSentiment >= 9
       /\ m.interactionFrequency >= 20
    THEN Transition(c, "FRIEND", "PARTNER",
                    "Exceptional metrics across all dimensions")
    ELSE IF m.averageSentiment < 4 \/ m.credibilityScore < 6
    THEN Transition(c, "FRIEND", "ACQUAINTANCE",
                    "Significant decline in relationship metrics")
    ELSE c

\* case RelationshipState.PARTNER
casePartner(c, m) ==
    IF m.averageSentiment < 6 \/ m.credibilityScore < 7
    THEN Transition(c, "PARTNER", "FRIEND",
                    "Decline in relationship strength")
    ELSE c

\* case RelationshipState.BUSINESS
caseBusiness(c, m) ==
    IF m.credibilityScore < 5
    THEN Transition(c, "BUSINESS", "COMPETITOR",
                    "Decline in business relationship")
    ELSE IF m.averageSentiment >= 8 /\ m.interactionFrequency >= 15
    THEN Transition(c, "BUSINESS", "PARTNER",
                    "Business relationship evolved to partnership")
    ELSE c

\* case RelationshipState.COMPETITOR
caseCompetitor(c, m) ==
    IF m.credibilityScore >= 6 /\ m.averageSentiment >= 6
    THEN Transition(c, "COMPETITOR", "BUSINESS",
                    "Improved business relationship")
    ELSE IF m.averageSentiment < 2
    THEN Transition(c, "COMPETITOR", "ADVERSARY",
                    "Hostile competitive relationship")
    ELSE c

\* the switch over context.relationshipState: the context after it
ApplyTable(c, m) ==
    CASE c.relationshipState = "STRANGER"     -> caseStranger(c, m)
      [] c.relationshipState = "ACQUAINTANCE" -> caseAcquaintance(c, m)
      [] c.relationshipState = "FRIEND"       -> caseFriend(c, m)
      [] c.relationshipState = "PARTNER"      -> casePartner(c, m)
      [] c.relationshipState = "BUSINESS"     -> caseBusiness(c, m)
      [] c.relationshipState = "COMPETITOR"   -> caseCompetitor(c, m)
      [] OTHER -> c

\* whether the forced ADVERSARY branch is taken
CredibilityTooLowBelowOne(m) == m.credibilityScore < 1

CredibilityTooLow(m) == m.credibilityScore < 2

\* the evaluation with the credibility score of the metrics copied into the
\* context
EvaluateCopyingScore(c, m) ==
    IF CredibilityTooLow(m)
    THEN [context |-> Transition([c EXCEPT !.credibilityScore = m.credibilityScore],
                                 c.relationshipState, "ADVERSARY",
                                 "Credibility score too low"),
          tableEvaluated |-> FALSE]
    ELSE [context |-> ApplyTable([c EXCEPT !.credibilityScore = m.credibilityScore], m),
          tableEvaluated |-> TRUE]

\* the evaluation with the override leading to ENEMY
EvaluateToEnemy(c, m) ==
    IF CredibilityTooLow(m)
    THEN [context |-> Transition(c, c.relationshipState, "ENEMY",
                                 "Credibility score too low"),
          tableEvaluated |-> FALSE]
    ELSE [context |-> ApplyTable(c, m), tableEvaluated |-> TRUE]

\* the evaluation of valid inputs, before the store write: the context after
\* it, and whether the switch was reached
Evaluate(c, m) ==
    IF CredibilityTooLow(m)
    THEN [context |-> Transition(c, c.relationshipState, "ADVERSARY",
                                 "Credibility score too low"),
          tableEvaluated |-> FALSE]
    ELSE [context |-> ApplyTable(c, m), tableEvaluated |-> TRUE]

\* the memory handed to createMemory
createMemoryContent(c) ==
    [present |-> TRUE,
     id |-> c.userId,
     roomId |-> c.userId,
     text |-> <<c.relationshipState, c.credibilityScore>>,
     content |-> c]

NoMemory == [present |-> FALSE]

\* 2^n
RECURSIVE Pow2(_)
Pow2(n) == IF n = 0 THEN 1 ELSE 2 * Pow2(n - 1)

\* retryOperation from loop index i on: attempt k of the operation fails iff
\* k is in failures. The error of attempt k is k; lastError 0 is none.
RECURSIVE RetryLoopAlwaysWait(_, _, _, _, _)
RetryLoopAlwaysWait(i, failures, maxRetries, delay, acc) ==
    IF i >= maxRetries
    THEN [acc EXCEPT !.ok = FALSE, !.thrown = acc.lastError]
    ELSE IF (i + 1) \notin failures
    THEN [acc EXCEPT !.ok = TRUE, !.attempts = i + 1]
    ELSE RetryLoopAlwaysWait(i + 1, failures, maxRetries, delay,
            [acc EXCEPT !.attempts = i + 1,
                        !.lastError = i + 1,
                        !.delays = Append(@, delay * Pow2(i))])

RECURSIVE RetryLoop(_, _, _, _, _)
RetryLoop(i, failures, maxRetries, delay, acc) ==
    IF i >= maxRetries
    THEN [acc EXCEPT !.ok = FALSE, !.thrown = acc.lastError]
    ELSE IF (i + 1) \notin failures
    THEN [acc EXCEPT !.ok = TRUE, !.attempts = i + 1]
    ELSE RetryLoop(i + 1, failures, maxRetries, delay,
            [acc EXCEPT !.attempts = i + 1,
                        !.lastError = i + 1,
                        !.delays = IF i < maxRetries - 1
                                   THEN Append(@, delay * Pow2(i))
                                   ELSE @])

retryOperationOneShort(failures, maxRetries, delay) ==
    RetryLoop(0, failures, maxRetries - 1, delay,
              [ok |-> FALSE, attempts |-> 0, lastError |-> 0, thrown |-> 0,
               delays |-> <<>>])

retryOperation(failures, maxRetries, delay) ==
    RetryLoop(0, failures, maxRetries, delay,
              [ok |-> FALSE, attempts |-> 0, lastError |-> 0, thrown |-> 0,
               delays |-> <<>>])

NoCall ==
    [result |-> "none", error |-> "", ctxPresent |-> TRUE, metrics |-> NoMetrics,
     failures |-> {}, before |-> createTestContext("STRANGER"),
     persistedBefore |-> NoMemory,
     tableEvaluated |-> FALSE, attempts |-> 0, thrown |-> 0, delays |-> <<>>]

\* One call of updateDetailedRelationshipStateEnhanced(runtime, context, metrics):
\* ctxPresent = FALSE passes null for the context; the store fails the write
\* attempts in failures.
updateDetailedRelationshipStateEnhanced(ctxPresent, m, failures) ==
    LET v    == validateInputs(ctxPresent, m)
        rec  == [NoCall EXCEPT !.ctxPresent = ctxPresent, !.metrics = m,
                               !.failures = failures, !.before = ctx,
                               !.persistedBefore = persisted]
    IN  IF v # "ok"
        THEN /\ call' = [rec EXCEPT !.result = "failed", !.error = v]
             /\ UNCHANGED <<ctx, persisted>>
        ELSE LET ev    == Evaluate(ctx, m)
                 after == ev.context
                 r     == retryOperation(failures, MaxRetries, RetryDelay)
             IN  /\ ctx' = after
                 /\ persisted' = IF r.ok THEN createMemoryContent(after)
                                 ELSE persisted
                 /\ call' = [rec EXCEPT
                        !.result = IF r.ok THEN "done" ELSE "failed",
                        !.error = IF r.ok THEN "" ELSE "store",
                        !.tableEvaluated = ev.tableEvaluated,
                        !.attempts = r.attempts,
                        !.thrown = r.thrown,
                        !.delays = r.delays]

----------------------------------------------------------------------------
(* monitor.ts: processNewMessages *)

\* a new message of the room: "" is an absent (falsy) content field
Messages ==
    { [action |-> "", emotionalState |-> "", responseType |-> ""],
      [action |-> "", emotionalState |-> "SAD", responseType |-> ""],
      [action |-> "STATE_UPDATE", emotionalState |-> "ANGRY",
       responseType |-> "ANALYZED"] }

\* v || d
OrElse(v, d) == IF v = "" THEN d ELSE v

\* the history entry pushed for a message
MessageEntry(c, message) ==
    [timestamp |-> Now,
     action |-> OrElse(message.action, "MESSAGE"),
     emotionalState |-> OrElse(message.emotionalState, c.emotionalState),
     responseType |-> OrElse(message.responseType, "NONE")]

\* the for loop: the context copy after the messages from index i on, c being
\* the context passed in (its emotionalState is the fallback of every entry)
RECURSIVE PushMessages(_, _, _, _)
PushMessages(c, updated, messages, i) ==
    IF i > Len(messages) THEN updated
    ELSE PushMessages(c,
            [updated EXCEPT
                !.interactionHistory = Append(@, MessageEntry(c, messages[i])),
                !.emotionalState = OrElse(messages[i].emotionalState, @)],
            messages, i + 1)

\* history.slice(-n)
SliceLast(history, n) ==
    IF Len(history) <= n THEN history
    ELSE SubSeq(history, Len(history) - n + 1, Len(history))

\* history.slice(0, n)
SliceFirst(history, n) ==
    IF Len(history) <= n THEN history ELSE SubSeq(history, 1, n)

\* the trim at the end of processNewMessages
TrimHistoryKeepOldest(history) ==
    IF Len(history) > HistoryLimit THEN SliceFirst(history, HistoryLimit)
    ELSE history

TrimHistory(history) ==
    IF Len(history) > HistoryLimit THEN SliceLast(history, HistoryLimit)
    ELSE history

\* the context processNewMessages returns
processNewMessages(c, messages) ==
    LET pushed == PushMessages(c, c, messages, 1)
    IN  [pushed EXCEPT !.interactionHistory = TrimHistory(@)]

\* the interactionHistory array of the context passed in, after the call: the
\* copy is shallow, so the pushes land in the caller's array; the trim
\* replaces the array of the copy only
HistoryAfterPush(c, messages) ==
    PushMessages(c, c, messages, 1).interactionHistory

\* a history of n entries, oldest first, entry i stamped i
OldHistory(n) ==
    [i \in 1..n |->
        [timestamp |-> i, action |-> "MESSAGE",
         emotionalState |-> IF i % 2 = 0 THEN "HAPPY" ELSE "FRUSTRATED",
         responseType |-> "NONE"]]

----------------------------------------------------------------------------
(* Numbers of the pipeline stages                                          *)
(*                                                                         *)
(* The scores of userEvaluation.ts are fractions; they are kept as exact   *)
(* rationals num/den in lowest terms with den > 0.  NaN is the value a     *)
(* JavaScript 0/0 produces: it makes every comparison false and survives   *)
(* every arithmetic operation, Math.min and Math.max.                      *)

NaN == [num |-> 0, den |-> 0]

IsNaN(x) == x.den = 0

Abs(n) == IF n < 0 THEN -n ELSE n

\* Math.min of two integers
Min(a, b) == IF a <= b THEN a ELSE b

RECURSIVE GCD(_, _)
GCD(a, b) == IF b = 0 THEN a ELSE GCD(b, a % b)

\* the number n/d, d # 0, in lowest terms
Rat(n, d) ==
    LET g == GCD(Abs(n), Abs(d))
        s == IF d < 0 THEN -1 ELSE 1
    IN  [num |-> s * (n \div g), den |-> s * (d \div g)]

RatAdd(x, y) ==
    IF IsNaN(x) \/ IsNaN(y) THEN NaN
    ELSE Rat(x.num * y.den + y.num * x.den, x.den * y.den)

RatSub(x, y) ==
    IF IsNaN(x) \/ IsNaN(y) THEN NaN
    ELSE Rat(x.num * y.den - y.num * x.den, x.den * y.den)

RatMul(x, y) ==
    IF IsNaN(x) \/ IsNaN(y) THEN NaN
    ELSE Rat(x.num * y.num, x.den * y.den)

\* x / y; the only division by zero these computations perform is 0 / 0
RatDiv(x, y) ==
    IF IsNaN(x) \/ IsNaN(y) \/ y.num = 0 THEN NaN
    ELSE Rat(x.num * y.den, x.den * y.num)

\* x < y, false when either is NaN
RatLt(x, y) == ~IsNaN(x) /\ ~IsNaN(y) /\ x.num * y.den < y.num * x.den

\* x >= y, false when either is NaN
RatGe(x, y) == ~IsNaN(x) /\ ~IsNaN(y) /\ x.num * y.den >= y.num * x.den

\* Math.min(x, y)
RatMin(x, y) ==
    IF IsNaN(x) \/ IsNaN(y) THEN NaN ELSE IF RatLt(y, x) THEN y ELSE x

\* Math.max(x, y)
RatMax(x, y) ==
    IF IsNaN(x) \/ IsNaN(y) THEN NaN ELSE IF RatLt(x, y) THEN y ELSE x

\* the set of the entries of a sequence
Range(s) == {s[i] : i \in DOMAIN s}

\* the sum of a sequence of integers
RECURSIVE SumSeq(_)
SumSeq(s) == IF s = <<>> THEN 0 ELSE Head(s) + SumSeq(Tail(s))

\* the entries of s that are in the set S, in order
FilterSeq(s, S) == SelectSeq(s, LAMBDA x : x \in S)

----------------------------------------------------------------------------
(* userEvaluation.ts: evaluateUser *)

\* interaction.emotionalState: "" when the entry has none (undefined)
EntryEmotion(interaction) ==
    IF "emotionalState" \in DOMAIN interaction THEN interaction.emotionalState
    ELSE ""

\* the last 10 emotional states
calculateEmotionalTrend(history) ==
    LET last == SliceLast(history, 10)
    IN  [i \in 1..Len(last) |-> EntryEmotion(last[i])]

\* history.filter(h => now - h.timestamp <= 7 days); timestamps are in days
RecentHistory(history) ==
    FilterSeq(history, {h \in Range(history) : Now - h.timestamp <= 7})

\* the gaps between successive recent interactions that are > 0
ResponseTimes(recent) ==
    LET gaps == [i \in 1..Len(recent) |->
                    IF i > 1 THEN recent[i].timestamp - recent[i - 1].timestamp
                    ELSE 0]
    IN  FilterSeq(gaps, {g \in Range(gaps) : g > 0})

\* averageResponseTime is in days here (milliseconds in the code, which only
\* uses it divided by the milliseconds of a day)
calculateInteractionMetrics(history) ==
    LET recentHistory == RecentHistory(history)
        frequency == Rat(Len(recentHistory), 7)
        responseTimes == ResponseTimes(recentHistory)
        averageResponseTime ==
            IF Len(responseTimes) > 0
            THEN Rat(SumSeq(responseTimes), Len(responseTimes))
            ELSE Rat(0, 1)
        analyzed ==
            Len(FilterSeq(recentHistory,
                    {h \in Range(recentHistory) : h.responseType = "ANALYZED"}))
        engagementScore ==
            RatMin(
                RatAdd(RatAdd(RatMul(frequency, Rat(4, 10)),
                              RatSub(Rat(1, 1),
                                     RatMul(averageResponseTime, Rat(3, 10)))),
                       RatMul(RatDiv(Rat(analyzed, 1),
                                     Rat(Len(recentHistory), 1)),
                              Rat(3, 10))),
                Rat(1, 1))
    IN  [frequency |-> frequency,
         averageResponseTime |-> averageResponseTime,
         engagementScore |-> engagementScore]

\* 1 - changes / (length - 1), 0 for fewer than 2 states
calculateEmotionalStability(emotionalTrend) ==
    IF Len(emotionalTrend) < 2 THEN Rat(0, 1)
    ELSE LET changes ==
                Cardinality({i \in 2..Len(emotionalTrend) :
                                emotionalTrend[i] # emotionalTrend[i - 1]})
         IN  RatSub(Rat(1, 1), Rat(changes, Len(emotionalTrend) - 1))

evalCalculateCredibilityScore(currentScore, emotionalTrend, metrics) ==
    LET s1 == RatAdd(currentScore,
                     RatMul(calculateEmotionalStability(emotionalTrend), Rat(2, 10)))
        s2 == RatAdd(s1, RatMul(RatSub(metrics.engagementScore, Rat(1, 2)),
                                Rat(2, 10)))
        s3 == IF RatLt(Rat(3, 1), metrics.frequency)
              THEN RatAdd(s2, Rat(1, 10)) ELSE s2
        s4 == IF RatLt(metrics.frequency, Rat(1, 2))
              THEN RatSub(s3, Rat(1, 10)) ELSE s3
    IN  RatMax(Rat(0, 1), RatMin(Rat(10, 1), s4))

\* the progression thresholds: credibilityRequired, engagementRequired
Thresholds ==
    [STRANGER |-> [nextState |-> "ACQUAINTANCE",
                   credibilityRequired |-> Rat(5, 1),
                   engagementRequired |-> Rat(4, 10)],
     ACQUAINTANCE |-> [nextState |-> "FRIEND",
                       credibilityRequired |-> Rat(7, 1),
                       engagementRequired |-> Rat(6, 10)],
     FRIEND |-> [nextState |-> "PARTNER",
                 credibilityRequired |-> Rat(85, 10),
                 engagementRequired |-> Rat(8, 10)]]

determineRelationshipState(currentState, credibilityScore, metrics) ==
    IF RatLt(credibilityScore, Rat(3, 1)) THEN "ADVERSARY"
    ELSE IF /\ currentState \in DOMAIN Thresholds
            /\ RatGe(credibilityScore, Thresholds[currentState].credibilityRequired)
            /\ RatGe(metrics.engagementScore,
                     Thresholds[currentState].engagementRequired)
         THEN Thresholds[currentState].nextState
    ELSE IF RatLt(credibilityScore, Rat(5, 1)) /\ currentState # "STRANGER"
         THEN "ACQUAINTANCE"
    ELSE currentState

\* userEvaluation.ts: determineResponseMode
evalDetermineResponseMode(relationshipState, emotionalTrend, metrics) ==
    IF RatLt(metrics.frequency, Rat(2, 10))
       \/ RatLt(metrics.engagementScore, Rat(3, 10))
    THEN "DISENGAGEMENT"
    ELSE IF relationshipState = "STRANGER" THEN "INITIAL"
    ELSE "ONGOING"

evaluateUser(context) ==
    LET history == context.interactionHistory
        emotionalTrend == calculateEmotionalTrend(history)
        interactionMetrics == calculateInteractionMetrics(history)
        credibilityScore ==
            evalCalculateCredibilityScore(context.credibilityScore,
                                          emotionalTrend, interactionMetrics)
        relationshipState ==
            determineRelationshipState(context.relationshipState,
                                       credibilityScore, interactionMetrics)
    IN  [credibilityScore |-> credibilityScore,
         relationshipState |-> relationshipState,
         recommendedResponseMode |->
            evalDetermineResponseMode(relationshipState, emotionalTrend,
                                      interactionMetrics),
         analysis |-> [emotionalTrend |-> emotionalTrend,
                       interactionFrequency |-> interactionMetrics.frequency,
                       averageResponseTime |->
                            interactionMetrics.averageResponseTime,
                       engagementScore |-> interactionMetrics.engagementScore]]

----------------------------------------------------------------------------
(* The relationship_contexts table                                         *)
(*                                                                         *)
(* The table is the host's; the actions reach it through                   *)
(* runtime.databaseAdapter.  getMemories({roomId, count: 1}) returns the   *)
(* record last written under roomId, or nothing, and the actions use what  *)
(* it returns as the RelationshipContext; createMemory(..., true) under a  *)
(* roomId replaces that record.  A table is a function from room ids to    *)
(* sequences of at most one context.                                       *)

Users == {"u1"}

\* the room ids of messages: the messages modelled are those of the user's
\* own room, whose id is the user's id
Rooms == {"u1"}

\* the messages the host hands to the actions
PipeMessages == [userId : Users, roomId : Rooms]

getMemories(table, roomId) == table[roomId]

createMemory(table, roomId, content) == [table EXCEPT ![roomId] = <<content>>]

\* what a handler did: its outcome, the context it loaded, the room it wrote
\* the context under, the record that write replaced and the table after it
Outcome(result, error, contexts, table, wrote, detail) ==
    [result |-> result, error |-> error, loaded |-> contexts,
     table |-> table, wrote |-> wrote, detail |-> detail]

Failed(error, contexts, table) ==
    Outcome("failed", error, contexts, table, <<>>, "")

Wrote(contexts, table, roomId, content, detail) ==
    Outcome("done", "", contexts, createMemory(table, roomId, content),
            <<roomId>>, detail)

\* the outcome of a handler that returns an analysis to its caller
Returning(outcome, analysis) ==
    [field \in DOMAIN outcome \cup {"analysis"} |->
        IF field = "analysis" THEN <<analysis>> ELSE outcome[field]]

----------------------------------------------------------------------------
(* responseMode.ts: DETERMINE_RESPONSE *)

validTransitions ==
    [IDLE |-> {"EMOTION_ANALYSIS", "RESPONSE_MODE"},
     EMOTION_ANALYSIS |-> {"RESPONSE_MODE", "MONITORING"},
     RESPONSE_MODE |-> {"MONITORING", "IDLE"},
     MONITORING |-> {"EMOTION_ANALYSIS", "IDLE"},
     USER_EVALUATION |-> {"IDLE", "EMOTION_ANALYSIS"}]

\* "ok" or the code of the ResponseStateError thrown
validateStateTransition(currentState, nextState, context) ==
    IF ~(currentState \in DOMAIN validTransitions
         /\ nextState \in validTransitions[currentState])
    THEN "INVALID_TRANSITION"
    ELSE IF nextState = "MONITORING" /\ context.emotionalState = ""
    THEN "INVALID_CONTEXT"
    ELSE "ok"

Config(style, tone, depth, engagement) ==
    [style |-> style, tone |-> tone, depth |-> depth, engagement |-> engagement]

getBaseConfig(relationshipState) ==
    CASE relationshipState = "STRANGER" ->
            Config("formal", "neutral", "surface", "minimal")
      [] relationshipState \in {"ACQUAINTANCE", "BUSINESS"} ->
            Config("professional", "direct", "moderate", "balanced")
      [] relationshipState \in {"FRIEND", "FAMILY"} ->
            Config("casual", "empathetic", "deep", "proactive")
      [] relationshipState = "PARTNER" ->
            Config("friendly", "empathetic", "deep", "proactive")
      [] relationshipState \in {"COMPETITOR", "ADVERSARY", "ENEMY"} ->
            Config("formal", "cautious", "surface", "minimal")
      [] relationshipState = "UNKNOWN" ->
            Config("formal", "neutral", "surface", "minimal")
      [] OTHER -> Config("formal", "neutral", "surface", "minimal")

\* with ANGRY adjusting the tone only
adjustConfigForEmotionToneOnly(config, emotionalState) ==
    CASE emotionalState = "HAPPY" ->
            [config EXCEPT !.tone = "empathetic", !.engagement = "proactive"]
      [] emotionalState = "SAD" ->
            [config EXCEPT !.tone = "empathetic", !.depth = "deep"]
      [] emotionalState = "ANGRY" ->
            [config EXCEPT !.tone = "cautious"]
      [] emotionalState = "FRUSTRATED" ->
            [config EXCEPT !.tone = "direct", !.depth = "moderate"]
      [] OTHER -> config

adjustConfigForEmotion(config, emotionalState) ==
    CASE emotionalState = "HAPPY" ->
            [config EXCEPT !.tone = "empathetic", !.engagement = "proactive"]
      [] emotionalState = "SAD" ->
            [config EXCEPT !.tone = "empathetic", !.depth = "deep"]
      [] emotionalState = "ANGRY" ->
            [config EXCEPT !.tone = "cautious", !.engagement = "minimal"]
      [] emotionalState = "FRUSTRATED" ->
            [config EXCEPT !.tone = "direct", !.depth = "moderate"]
      [] OTHER -> config

\* "ok" or the code of the ResponseStateError thrown
validateResponseConfig(config) ==
    IF config.style \notin {"formal", "casual", "friendly", "professional"}
    THEN "INVALID_STYLE"
    ELSE IF config.tone \notin {"neutral", "empathetic", "direct", "cautious"}
    THEN "INVALID_TONE"
    ELSE IF config.depth \notin {"surface", "moderate", "deep"}
    THEN "INVALID_DEPTH"
    ELSE IF config.engagement \notin {"minimal", "balanced", "proactive"}
    THEN "INVALID_ENGAGEMENT"
    ELSE "ok"

determineNextState(context) ==
    IF context.responseMode = "DISENGAGEMENT" THEN "IDLE"
    ELSE IF RatLt(context.credibilityScore, Rat(5, 1)) THEN "MONITORING"
    ELSE "EMOTION_ANALYSIS"

\* responseMode.ts: determineResponseMode; the recommendations it lists are
\* returned to the caller only and are left out
determineResponseMode(context) ==
    [mode |-> context.responseMode,
     config |-> adjustConfigForEmotion(getBaseConfig(context.relationshipState),
                                       context.emotionalState),
     nextState |-> determineNextState(context)]

\* responseMode.ts: updateContext builds this; the entry has no emotionalState
responseUpdatedContext(responseModeResult, context) ==
    [context EXCEPT
        !.currentState = responseModeResult.nextState,
        !.responseMode = responseModeResult.mode,
        !.lastInteraction = Now,
        !.interactionHistory =
            Append(@, [timestamp |-> Now, action |-> "RESPONSE_MODE_UPDATE",
                       responseType |-> "CONFIGURED",
                       config |-> responseModeResult.config])]

responseModeValidate(table, message) ==
    LET contexts == getMemories(table, message.roomId)
    IN  /\ message.userId # ""
        /\ contexts # <<>>
        /\ contexts[1].emotionalState # ""
        /\ contexts[1].currentState = "RESPONSE_MODE"

responseModeHandler(table, message) ==
    LET contexts == getMemories(table, message.roomId)
    IN  IF contexts = <<>> THEN Failed("MISSING_CONTEXT", contexts, table)
        ELSE LET context == contexts[1]
                 responseModeResult == determineResponseMode(context)
                 configCheck == validateResponseConfig(responseModeResult.config)
                 transitionCheck ==
                    validateStateTransition(context.currentState,
                                            responseModeResult.nextState, context)
             IN  IF configCheck # "ok" THEN Failed(configCheck, contexts, table)
                 ELSE IF transitionCheck # "ok"
                 THEN Failed(transitionCheck, contexts, table)
                 ELSE Wrote(contexts, table, context.userId,
                            responseUpdatedContext(responseModeResult, context),
                            responseModeResult.nextState)

----------------------------------------------------------------------------
(* emotionAnalysis: ANALYZE_EMOTION *)

\* Object.values(EmotionalState)
EmotionOrder == <<"HAPPY", "SAD", "ANGRY", "FRUSTRATED">>

\* An analysis text, the latest memory of the user's room in the message
\* store, is given by the number of words of each emotion's lexicon in it.
NoWords == [e \in EmotionalStates |-> 0]

AnalysisTexts ==
    { NoWords,
      [NoWords EXCEPT !["HAPPY"] = 1],
      [NoWords EXCEPT !["FRUSTRATED"] = 2],
      [NoWords EXCEPT !["SAD"] = 3],
      [NoWords EXCEPT !["HAPPY"] = 4],
      [NoWords EXCEPT !["HAPPY"] = 3, !["ANGRY"] = 3] }

\* the text of the message: none, white space only, or words
MessageTexts == {"", " ", "text"}

\* text.trim()
TextTrim(text) == IF text = " " THEN "" ELSE text

countEmotionReferences(emotion, texts) ==
    SumSeq([i \in 1..Len(texts) |-> texts[i][emotion]])

\* the reduce over the emotions in declaration order, from position i on
RECURSIVE DominantFrom(_, _, _)
DominantFrom(emotionCounts, dominant, i) ==
    IF i > Len(EmotionOrder) THEN dominant
    ELSE DominantFrom(emotionCounts,
            IF emotionCounts[EmotionOrder[i]] > emotionCounts[dominant]
            THEN EmotionOrder[i] ELSE dominant,
            i + 1)

\* the reduce with >= for >: the last emotion of the highest count wins
RECURSIVE DominantFromLast(_, _, _)
DominantFromLast(emotionCounts, dominant, i) ==
    IF i > Len(EmotionOrder) THEN dominant
    ELSE DominantFromLast(emotionCounts,
            IF emotionCounts[EmotionOrder[i]] >= emotionCounts[dominant]
            THEN EmotionOrder[i] ELSE dominant,
            i + 1)

determineDominantEmotionLastWins(sentimentAnalysis, contextAnalysis) ==
    LET emotionCounts ==
            [e \in EmotionalStates |->
                countEmotionReferences(e, <<sentimentAnalysis, contextAnalysis>>)]
    IN  DominantFromLast(emotionCounts, "HAPPY", 1)

determineDominantEmotion(sentimentAnalysis, contextAnalysis) ==
    LET emotionCounts ==
            [e \in EmotionalStates |->
                countEmotionReferences(e, <<sentimentAnalysis, contextAnalysis>>)]
    IN  DominantFrom(emotionCounts, "HAPPY", 1)

\* Math.min(references / 5, 1)
calculateEmotionScore(emotion, text) ==
    RatMin(Rat(countEmotionReferences(emotion, <<text>>), 5), Rat(1, 1))

\* the scores of analyzeSubEmotions, highest first
RECURSIVE SortedScores(_)
SortedScores(scores) ==
    IF scores = <<>> THEN <<>>
    ELSE LET top == CHOOSE i \in DOMAIN scores :
                        \A j \in DOMAIN scores : ~RatLt(scores[i], scores[j])
             rest == [k \in 1..(Len(scores) - 1) |->
                        IF k < top THEN scores[k] ELSE scores[k + 1]]
         IN  <<scores[top]>> \o SortedScores(rest)

analyzeSubEmotions(analysis) ==
    SortedScores([i \in 1..Len(EmotionOrder) |->
                    calculateEmotionScore(EmotionOrder[i], analysis)])

\* calculateConfidence with the weights of the difference and of the top
\* score exchanged
calculateConfidenceWeightsExchanged(subEmotions) ==
    IF Len(subEmotions) = 0 THEN Rat(0, 1)
    ELSE LET topScore == subEmotions[1]
             secondScore == IF Len(subEmotions) > 1 THEN subEmotions[2]
                            ELSE Rat(0, 1)
             scoreDiff == RatSub(topScore, secondScore)
         IN  RatMin(RatAdd(RatAdd(Rat(3, 10), RatMul(scoreDiff, Rat(3, 10))),
                           RatMul(topScore, Rat(4, 10))),
                    Rat(1, 1))

\* subEmotions is the sequence of scores, highest first
calculateConfidence(subEmotions) ==
    IF Len(subEmotions) = 0 THEN Rat(0, 1)
    ELSE LET topScore == subEmotions[1]
             secondScore == IF Len(subEmotions) > 1 THEN subEmotions[2]
                            ELSE Rat(0, 1)
             scoreDiff == RatSub(topScore, secondScore)
         IN  RatMin(RatAdd(RatAdd(Rat(3, 10), RatMul(scoreDiff, Rat(4, 10))),
                           RatMul(topScore, Rat(3, 10))),
                    Rat(1, 1))

\* The intensifiers of a text: the numbers of matches of the four patterns
\* (degree adverbs, runs of two or more of ! and ?, the words CAPS and ALL
\* CAPS, urgency words).
calculateIntensity(intensifiers) ==
    LET intensity ==
            RatAdd(RatAdd(RatMul(Rat(intensifiers.degree, 1), Rat(20, 100)),
                          RatMul(Rat(intensifiers.repeated, 1), Rat(15, 100))),
                   RatAdd(RatMul(Rat(intensifiers.caps, 1), Rat(25, 100)),
                          RatMul(Rat(intensifiers.urgency, 1), Rat(30, 100))))
    IN  RatMin(RatMax(intensity, Rat(0, 1)), Rat(1, 1))

\* "ok" or the code of the EmotionAnalysisError thrown; contexts is what the
\* handler loaded
validateAnalysisInput(text, contexts) ==
    IF TextTrim(text) = "" THEN "INVALID_INPUT"
    ELSE IF contexts = <<>> \/ contexts[1].userId = "" THEN "INVALID_CONTEXT"
    ELSE IF contexts[1].emotionalState = "" THEN "INVALID_CONTEXT"
    ELSE IF contexts[1].emotionalState \notin EmotionalStates
    THEN "INVALID_EMOTIONAL_STATE"
    ELSE "ok"

\* analyzeEmotion with a message store that answers every request: both reads
\* of the latest memory return the text analysis.  The triggers, intensity
\* and duration it also reports are returned to the caller only and are left
\* out (the intensity is clamped to [0, 1], so its range check passes).
analyzeEmotion(text, contexts, analysis) ==
    LET check == validateAnalysisInput(text, contexts)
        confidence == calculateConfidence(analyzeSubEmotions(analysis))
    IN  IF check # "ok"
        THEN [error |-> check, dominantEmotion |-> "", confidence |-> NaN]
        ELSE IF RatLt(confidence, Rat(0, 1)) \/ RatLt(Rat(1, 1), confidence)
        THEN [error |-> "INVALID_CONFIDENCE", dominantEmotion |-> "",
              confidence |-> confidence]
        ELSE [error |-> "",
              dominantEmotion |-> determineDominantEmotion(analysis, analysis),
              confidence |-> confidence]

\* withRetry of an operation whose first `failures` attempts throw an error
\* that may be retried: whether it returns, the attempts made and the waits
\* between them
withRetry(failures, retries) ==
    [ok |-> failures <= retries,
     attempts |-> Min(failures, retries) + 1,
     waits |-> Min(failures, retries)]

\* retries: 3 of the three withRetry calls of analyzeEmotion
AnalysisRetries == 3

\* the requests analyzeEmotion makes to the message store after the
\* validation. plan gives, for the createMemory of the sentiment prompt, the
\* createMemory of the context prompt and the read of the results, the number
\* of attempts that fail before one succeeds. Promise.all starts both
\* createMemory calls; the read is made when both have returned.
messageStoreCalls(plan) ==
    LET sentimentMemory == withRetry(plan.sentiment, AnalysisRetries)
        contextMemory == withRetry(plan.context, AnalysisRetries)
        created == (IF sentimentMemory.ok THEN 1 ELSE 0)
                   + (IF contextMemory.ok THEN 1 ELSE 0)
        results == withRetry(plan.results, AnalysisRetries)
    IN  IF ~(sentimentMemory.ok /\ contextMemory.ok)
        THEN [error |-> "ANALYSIS_FAILED", created |-> created,
              attempts |-> sentimentMemory.attempts + contextMemory.attempts,
              waits |-> sentimentMemory.waits + contextMemory.waits]
        ELSE [error |-> IF results.ok THEN "" ELSE "MISSING_ANALYSIS",
              created |-> created,
              attempts |-> sentimentMemory.attempts + contextMemory.attempts
                           + results.attempts,
              waits |-> sentimentMemory.waits + contextMemory.waits
                        + results.waits]

\* the retryable flag of the EmotionAnalysisError of a code
Retryable(code) == code \in {"MISSING_ANALYSIS", "ANALYSIS_FAILED"}

\* analyzeEmotionCalls with the validation made after the requests to the
\* message store
analyzeEmotionCallsValidatedLate(text, contexts, analysis, plan) ==
    LET check == validateAnalysisInput(text, contexts)
        calls == messageStoreCalls(plan)
        emotionResult == analyzeEmotion(text, contexts, analysis)
        error == IF calls.error # "" THEN calls.error
                 ELSE IF check # "ok" THEN check
                 ELSE emotionResult.error
    IN  [error |-> error, retryable |-> Retryable(error),
         created |-> calls.created, attempts |-> calls.attempts,
         waits |-> calls.waits,
         result |-> IF error = "" THEN <<emotionResult>> ELSE <<>>]

\* analyzeEmotion with the requests it makes to the message store: the error
\* thrown ("" for none) and its retryable flag, the memories created, the
\* attempts and waits of its withRetry calls, and the result returned
analyzeEmotionCalls(text, contexts, analysis, plan) ==
    LET check == validateAnalysisInput(text, contexts)
        calls == messageStoreCalls(plan)
        emotionResult == analyzeEmotion(text, contexts, analysis)
        error == IF check # "ok" THEN check
                 ELSE IF calls.error # "" THEN calls.error
                 ELSE emotionResult.error
    IN  [error |-> error, retryable |-> Retryable(error),
         created |-> IF check # "ok" THEN 0 ELSE calls.created,
         attempts |-> IF check # "ok" THEN 0 ELSE calls.attempts,
         waits |-> IF check # "ok" THEN 0 ELSE calls.waits,
         result |-> IF error = "" THEN <<emotionResult>> ELSE <<>>]

\* the condition under which updateEmotionalState writes
\* a different emotion alone does not lower the confidence needed
ShouldCommitHighOnly(emotionResult, context) ==
    RatLt(Rat(7, 10), emotionResult.confidence)

ShouldCommit(emotionResult, context) ==
    \/ RatLt(Rat(7, 10), emotionResult.confidence)
    \/ /\ emotionResult.dominantEmotion # context.emotionalState
       /\ RatLt(Rat(5, 10), emotionResult.confidence)

emotionUpdatedContext(emotionResult, context) ==
    [context EXCEPT
        !.emotionalState = emotionResult.dominantEmotion,
        !.currentState = "USER_EVALUATION",
        !.interactionHistory =
            Append(@, [timestamp |-> Now, action |-> "EMOTION_UPDATE",
                       emotionalState |-> emotionResult.dominantEmotion,
                       responseType |-> "ANALYZED"])]

emotionAnalysisValidate(table, message, text) ==
    LET contexts == getMemories(table, message.roomId)
    IN  /\ text # ""
        /\ contexts # <<>>
        /\ contexts[1].currentState = "EMOTION_ANALYSIS"

emotionAnalysisHandler(table, message, text, analysis) ==
    LET contexts == getMemories(table, message.roomId)
        emotionResult == analyzeEmotion(text, contexts, analysis)
    IN  IF emotionResult.error # ""
        THEN Failed(emotionResult.error, contexts, table)
        ELSE IF ShouldCommit(emotionResult, contexts[1])
        THEN Returning(Wrote(contexts, table, message.userId,
                             emotionUpdatedContext(emotionResult, contexts[1]),
                             emotionResult.dominantEmotion),
                       emotionResult)
        ELSE Returning(Outcome("done", "", contexts, table, <<>>,
                               emotionResult.dominantEmotion),
                       emotionResult)

----------------------------------------------------------------------------
(* userEvaluation.ts: EVALUATE_USER *)

evalUpdatedContext(evaluation, context) ==
    [context EXCEPT
        !.credibilityScore = evaluation.credibilityScore,
        !.relationshipState = evaluation.relationshipState,
        !.responseMode = evaluation.recommendedResponseMode,
        !.currentState = "RESPONSE_MODE",
        !.lastInteraction = Now,
        !.interactionHistory =
            Append(@, [timestamp |-> Now, action |-> "USER_EVALUATION",
                       emotionalState |-> context.emotionalState,
                       responseType |-> "ANALYZED"])]

\* without the check of the stage
userEvaluationValidateAnyStage(table, message) ==
    LET contexts == getMemories(table, message.roomId)
    IN  /\ message.userId # ""
        /\ contexts # <<>>

userEvaluationValidate(table, message) ==
    LET contexts == getMemories(table, message.roomId)
    IN  /\ message.userId # ""
        /\ contexts # <<>>
        /\ contexts[1].currentState = "USER_EVALUATION"

\* without a context, evaluateUser reads a property of undefined
userEvaluationHandler(table, message) ==
    LET contexts == getMemories(table, message.roomId)
    IN  IF contexts = <<>> THEN Failed("TypeError", contexts, table)
        ELSE Wrote(contexts, table, message.userId,
                   evalUpdatedContext(evaluateUser(contexts[1]), contexts[1]),
                   "")

----------------------------------------------------------------------------
(* endAction.ts: END_INTERACTION *)

determineEndReason(context) ==
    LET history == context.interactionHistory
    IN  IF context.responseMode = "DISENGAGEMENT" THEN "DISENGAGEMENT"
        ELSE IF RatLt(context.credibilityScore, Rat(3, 1)) THEN "LOW_CREDIBILITY"
        ELSE IF history # <<>> /\ history[Len(history)].action = "MESSAGE"
        THEN "USER_REQUEST"
        ELSE "SYSTEM_INITIATED"

\* generateSummary reads the timestamp of the last interaction: it throws on
\* an empty history
SummaryThrows(context) == context.interactionHistory = <<>>

\* the history is replaced by the END_INTERACTION entry
endUpdatedContextDropsHistory(context) ==
    [context EXCEPT
        !.currentState = "IDLE",
        !.responseMode = "INITIAL",
        !.lastInteraction = Now,
        !.interactionHistory =
            <<[timestamp |-> Now, action |-> "END_INTERACTION",
               emotionalState |-> context.emotionalState,
               responseType |-> "ANALYZED"]>>]

endUpdatedContext(context) ==
    [context EXCEPT
        !.currentState = "IDLE",
        !.responseMode = "INITIAL",
        !.lastInteraction = Now,
        !.interactionHistory =
            Append(@, [timestamp |-> Now, action |-> "END_INTERACTION",
                       emotionalState |-> context.emotionalState,
                       responseType |-> "ANALYZED"])]

endActionValidate(table, message) ==
    LET contexts == getMemories(table, message.roomId)
    IN  /\ message.userId # ""
        /\ contexts # <<>>
        /\ contexts[1].currentState # "IDLE"
        /\ \/ contexts[1].responseMode = "DISENGAGEMENT"
           \/ contexts[1].emotionalState = "FRUSTRATED"

\* the handler has no try: an error of processEndAction leaves it before any
\* write
endActionHandler(table, message) ==
    LET contexts == getMemories(table, message.roomId)
    IN  IF contexts = <<>> \/ SummaryThrows(contexts[1])
        THEN Failed("TypeError", contexts, table)
        ELSE Wrote(contexts, table, message.userId,
                   endUpdatedContext(contexts[1]),
                   determineEndReason(contexts[1]))

----------------------------------------------------------------------------
(* monitor.ts: MONITOR_SOCIAL and the monitoring loop *)

\* the MonitoringState the handler creates
NewMonitoringState(message) ==
    [isActive |-> TRUE, lastUpdate |-> Now, userId |-> message.userId,
     roomId |-> message.roomId, retryAttempts |-> 0]

\* the context written in the stage the evaluation starts from
monitorUpdatedContextToEvaluation(context) ==
    [context EXCEPT
        !.currentState = "USER_EVALUATION",
        !.lastInteraction = Now,
        !.interactionHistory =
            Append(@, [timestamp |-> Now, action |-> "STATE_UPDATE",
                       emotionalState |-> context.emotionalState,
                       responseType |-> "ANALYZED"])]

monitorUpdatedContext(context) ==
    [context EXCEPT
        !.currentState = "MONITORING",
        !.lastInteraction = Now,
        !.interactionHistory =
            Append(@, [timestamp |-> Now, action |-> "STATE_UPDATE",
                       emotionalState |-> context.emotionalState,
                       responseType |-> "ANALYZED"])]
monitorValidate(table, message) ==
    LET contexts == getMemories(table, message.roomId)
    IN  /\ contexts # <<>>
        /\ contexts[1].currentState # "MONITORING"

\* initializeMonitoring, as the handler wraps it: without a context the
\* spread of its interactionHistory throws, which the handler reports as
\* INIT_FAILED
initializeMonitoring(table, message) ==
    LET contexts == getMemories(table, message.roomId)
    IN  IF contexts = <<>> THEN Failed("INIT_FAILED", contexts, table)
        ELSE Wrote(contexts, table, message.roomId,
                   monitorUpdatedContext(contexts[1]), "")

\* One call of updateMonitoringState: readFails says whether the read of the
\* table raises, messages are the new messages of the room.  It returns the
\* code of the MonitorStateError thrown ("" for none), whether that error is
\* recoverable, and the loop's lastUpdate afterwards.  The context that
\* processNewMessages returns is checked and then dropped.
updateMonitoringState(table, monitoringState, readFails, messages) ==
    LET contexts == getMemories(table, monitoringState.roomId)
        unchanged == monitoringState.lastUpdate
    IN  IF readFails
        THEN [error |-> "UPDATE_FAILED", recoverable |-> TRUE,
              lastUpdate |-> unchanged]
        ELSE IF contexts = <<>>
        THEN [error |-> "MISSING_CONTEXT", recoverable |-> TRUE,
              lastUpdate |-> unchanged]
        ELSE IF Len(messages) > 0
        THEN LET updatedContext == processNewMessages(contexts[1], messages)
             IN  IF updatedContext.emotionalState = ""
                    \/ updatedContext.relationshipState = ""
                 THEN [error |-> "INVALID_CONTEXT", recoverable |-> TRUE,
                       lastUpdate |-> unchanged]
                 ELSE [error |-> "", recoverable |-> TRUE, lastUpdate |-> Now]
        ELSE [error |-> "", recoverable |-> TRUE, lastUpdate |-> unchanged]

\* the for loop of attemptStateRecovery from attempt on: calls[k] is the
\* result of the k-th call of updateMonitoringState; waits are the delays
\* slept so far
RECURSIVE RecoveryLoop(_, _, _, _)
RecoveryLoop(attempt, calls, currentBackoff, waits) ==
    IF attempt > RecoveryMaxAttempts
    THEN [recovered |-> FALSE, calls |-> attempt - 1, waits |-> waits,
          lastUpdate |-> calls[attempt - 1].lastUpdate]
    ELSE IF calls[attempt].error = ""
    THEN [recovered |-> TRUE, calls |-> attempt, waits |-> waits,
          lastUpdate |-> calls[attempt].lastUpdate]
    ELSE IF ~calls[attempt].recoverable \/ attempt = RecoveryMaxAttempts
    THEN [recovered |-> FALSE, calls |-> attempt, waits |-> waits,
          lastUpdate |-> calls[attempt].lastUpdate]
    ELSE RecoveryLoop(attempt + 1, calls,
                      Min(currentBackoff * 2, RecoveryMaxBackoffMs),
                      Append(waits, currentBackoff))

\* without the check of the last attempt: the loop sleeps once more before
\* it gives up
attemptStateRecoveryWaitsAgain(calls) ==
    LET recovery == RecoveryLoop(1, calls, RecoveryBackoffMs, <<>>)
    IN  IF ~recovery.recovered /\ recovery.calls = RecoveryMaxAttempts
           /\ calls[RecoveryMaxAttempts].recoverable
        THEN [recovery EXCEPT
                !.waits = Append(@, Min(RecoveryBackoffMs * Pow2(Len(@)),
                                        RecoveryMaxBackoffMs))]
        ELSE recovery

attemptStateRecovery(calls) == RecoveryLoop(1, calls, RecoveryBackoffMs, <<>>)

\* handleMonitoringFailure, after it has written the failure record: the
\* table after it and the room it wrote under.  readFails says whether its
\* read of the table raises; the catch of the function then logs the error
\* and nothing is written.
handleMonitoringFailure(table, monitoringState, readFails) ==
    LET contexts == getMemories(table, monitoringState.roomId)
    IN  IF readFails
        THEN [table |-> table, wrote |-> <<>>, loaded |-> <<>>]
        ELSE IF contexts # <<>>
        THEN [table |-> createMemory(table, monitoringState.roomId,
                            [contexts[1] EXCEPT !.currentState = "IDLE"]),
              wrote |-> <<monitoringState.roomId>>, loaded |-> contexts]
        ELSE [table |-> table, wrote |-> <<>>, loaded |-> contexts]

\* a loop that persists the context processNewMessages returns
monitoringLoopPersisting(table, monitoringState, reads, messages) ==
    LET first == updateMonitoringState(table, monitoringState, reads[1], messages)
        contexts == getMemories(table, monitoringState.roomId)
    IN  IF first.error = "" /\ Len(messages) > 0
        THEN [state |-> [monitoringState EXCEPT !.retryAttempts = 0,
                                                !.lastUpdate = first.lastUpdate],
              store |-> [table |-> createMemory(table, monitoringState.roomId,
                                        processNewMessages(contexts[1], messages)),
                         wrote |-> <<monitoringState.roomId>>,
                         loaded |-> contexts],
              detail |-> "updated", failed |-> FALSE, backoffTime |-> 0]
        ELSE [state |-> monitoringState,
              store |-> [table |-> table, wrote |-> <<>>, loaded |-> contexts],
              detail |-> "quiet", failed |-> FALSE, backoffTime |-> 0]

\* One run of monitoringLoop for an active loop.  reads[k] says whether the
\* table read of the k-th call of updateMonitoringState raises: the first is
\* the loop's own call, the others are those of attemptStateRecovery; the
\* last entry of reads is the read of handleMonitoringFailure.
monitoringLoop(table, monitoringState, reads, messages) ==
    LET first == updateMonitoringState(table, monitoringState, reads[1], messages)
        retryAttempts == monitoringState.retryAttempts + 1
        calls == [k \in 1..RecoveryMaxAttempts |->
                    updateMonitoringState(table, monitoringState,
                                          reads[k + 1], messages)]
        recovery == attemptStateRecovery(calls)
        failure == handleMonitoringFailure(table, monitoringState,
                                           reads[RecoveryMaxAttempts + 2])
        same == [table |-> table, wrote |-> <<>>,
                 loaded |-> getMemories(table, monitoringState.roomId)]
    IN  IF first.error = ""
        THEN [state |-> [monitoringState EXCEPT !.retryAttempts = 0,
                                                !.lastUpdate = first.lastUpdate],
              store |-> same,
              detail |-> IF Len(messages) > 0 THEN "updated" ELSE "quiet",
              failed |-> FALSE,
              backoffTime |-> 0]
        ELSE IF retryAttempts < MAX_RETRY_ATTEMPTS
        THEN [state |-> [monitoringState EXCEPT !.retryAttempts = retryAttempts],
              store |-> same, detail |-> "retry", failed |-> FALSE,
              backoffTime |-> Min(1000 * Pow2(retryAttempts), 30000)]
        ELSE IF recovery.recovered
        THEN [state |-> [monitoringState EXCEPT !.retryAttempts = 0,
                                                !.lastUpdate = recovery.lastUpdate],
              store |-> same, detail |-> "recovered", failed |-> FALSE,
              backoffTime |-> Min(1000 * Pow2(0), 30000)]
        ELSE [state |-> [monitoringState EXCEPT !.retryAttempts = retryAttempts,
                                                !.isActive = FALSE],
              store |-> failure, detail |-> "failure", failed |-> TRUE,
              backoffTime |-> 0]

----------------------------------------------------------------------------
(* providers/relationship.ts: the weighted credibility scorer *)

\* Math.log10(n) for n a power of ten, the only arguments drawn
RECURSIVE Log10(_)
Log10(n) == IF n < 10 THEN 0 ELSE 1 + Log10(n \div 10)

\* accountAge is in days
calculateAccountAgeScore(accountAge) ==
    RatMul(RatMin(Rat(accountAge, 5 * 365), Rat(1, 1)), Rat(3, 1))

calculateFollowerScore(followerCount) ==
    RatMul(RatMin(Rat(Log10(followerCount + 1), 5), Rat(1, 1)), Rat(2, 1))

calculateVerificationScore(isVerified) ==
    IF isVerified THEN Rat(1, 1) ELSE Rat(0, 1)

calculateInteractionFrequencyScore(pastInteractions) ==
    RatMul(RatMin(Rat(pastInteractions, 50), Rat(1, 1)), Rat(15, 10))

calculateRecencyFactor(lastInteractionDate) ==
    LET daysSinceLastInteraction == Now - lastInteractionDate
    IN  IF daysSinceLastInteraction <= 7 THEN Rat(1, 1)
        ELSE RatMax(Rat(0, 1),
                    RatSub(Rat(1, 1), Rat(daysSinceLastInteraction - 7, 30)))

calculatePositiveInteractionRatio(history) ==
    IF history.pastInteractions = 0 THEN Rat(0, 1)
    ELSE Rat(history.positiveInteractions, history.pastInteractions)

\* the weighted sum times the recency factor
baseScore(profile, history) ==
    RatMul(RatAdd(RatAdd(RatAdd(RatAdd(
        RatMul(calculateAccountAgeScore(profile.accountAge), Rat(2, 10)),
        RatMul(calculateFollowerScore(profile.followerCount), Rat(15, 100))),
        RatMul(calculateVerificationScore(profile.verificationStatus), Rat(1, 10))),
        RatMul(calculateInteractionFrequencyScore(history.pastInteractions), Rat(2, 10))),
        RatMul(calculatePositiveInteractionRatio(history), Rat(25, 100))),
        calculateRecencyFactor(history.lastInteractionDate))

\* without the clamp to the 0-10 scale
calculateCredibilityScoreUnclamped(profile, history) ==
    RatMul(baseScore(profile, history), Rat(10, 1))

calculateCredibilityScore(profile, history) ==
    RatMin(RatMax(RatMul(baseScore(profile, history), Rat(10, 1)), Rat(0, 1)),
           Rat(10, 1))

----------------------------------------------------------------------------
(* providers/relationship.ts: relationshipProvider.get *)

\* defaultProfile, of a user without a profile
NoProfile ==
    [accountAge |-> 0, followerCount |-> 0, followingCount |-> 0,
     verificationStatus |-> FALSE]

\* the history analysis of no interactions
NoHistoryAnalysis ==
    [pastInteractions |-> 0, positiveInteractions |-> 0,
     negativeInteractions |-> 0, lastInteractionDate |-> Now]

\* the calls of one get that the stores can fail
ProviderCalls == {"read", "create", "messages", "profile", "save"}

defaultRelationshipContext ==
    [userId |-> "", currentState |-> "IDLE", emotionalState |-> "HAPPY",
     relationshipState |-> "STRANGER", responseMode |-> "INITIAL",
     credibilityScore |-> Rat(0, 1), lastInteraction |-> Now,
     interactionHistory |-> <<>>]

\* the context the provider works on and the table it leaves; fails is the
\* set of calls the stores fail
getOrCreateRelationshipContext(table, userId, fails) ==
    LET newContext == [defaultRelationshipContext EXCEPT !.userId = userId]
    IN  IF "read" \in fails THEN [context |-> newContext, table |-> table]
        ELSE IF table # <<>> THEN [context |-> table[1], table |-> table]
        ELSE IF "create" \in fails THEN [context |-> newContext, table |-> table]
        ELSE [context |-> newContext, table |-> <<newContext>>]

\* messages is what the message store holds of the last 30 days, newest first
getRecentInteractions(messages, fails) ==
    IF "messages" \in fails THEN <<>>
    ELSE [i \in 1..Len(messages) |->
            [timestamp |-> messages[i].createdAt,
             action |-> OrElse(messages[i].action, "MESSAGE"),
             emotionalState |-> OrElse(messages[i].emotionalState, "HAPPY"),
             responseType |-> OrElse(messages[i].responseType, "NONE")]]

\* profiles is what the user_profiles table holds for the user
calculateRelationshipMetrics(profiles, interactions, fails) ==
    IF "profile" \in fails
    THEN [credibilityScore |-> Rat(0, 1), interactionFrequency |-> 0,
          averageSentiment |-> Rat(5, 10)]
    ELSE LET profileReview == IF profiles = <<>> THEN NoProfile ELSE profiles[1]
             emotions == [i \in 1..Len(interactions) |-> interactions[i].emotionalState]
             historyAnalysis ==
                 [pastInteractions |-> Len(interactions),
                  positiveInteractions |-> Len(FilterSeq(emotions, {"HAPPY"})),
                  negativeInteractions |->
                      Len(FilterSeq(emotions, {"ANGRY", "FRUSTRATED"})),
                  lastInteractionDate |->
                      IF interactions = <<>> THEN Now ELSE interactions[1].timestamp]
         IN  [credibilityScore |-> calculateCredibilityScore(profileReview, historyAnalysis),
              interactionFrequency |-> Len(interactions),
              averageSentiment |->
                  Rat(historyAnalysis.positiveInteractions
                        - historyAnalysis.negativeInteractions,
                      IF historyAnalysis.pastInteractions > 1
                      THEN historyAnalysis.pastInteractions ELSE 1)]

\* the tier updateRelationshipState decides on
newState(metrics) ==
    LET credibilityScore == metrics.credibilityScore
        averageSentiment == metrics.averageSentiment
    IN  IF RatGe(credibilityScore, Rat(8, 1)) /\ RatLt(Rat(7, 10), averageSentiment)
        THEN "FRIEND"
        ELSE IF RatGe(credibilityScore, Rat(7, 1)) /\ RatLt(Rat(5, 10), averageSentiment)
        THEN "PARTNER"
        ELSE IF RatGe(credibilityScore, Rat(6, 1)) THEN "ACQUAINTANCE"
        ELSE IF RatGe(credibilityScore, Rat(4, 1)) THEN "BUSINESS"
        ELSE IF RatGe(credibilityScore, Rat(2, 1)) THEN "COMPETITOR"
        ELSE IF RatLt(averageSentiment, Rat(-5, 10)) THEN "ADVERSARY"
        ELSE IF RatLt(averageSentiment, Rat(-8, 10)) THEN "ENEMY"
        ELSE "STRANGER"

\* saveContext: the table after it, and whether it threw
saveContext(table, context, fails) ==
    IF "save" \in fails THEN [table |-> table, thrown |-> TRUE]
    ELSE [table |-> <<context>>, thrown |-> FALSE]

updateRelationshipState(table, context, metrics, fails) ==
    IF newState(metrics) # context.relationshipState
    THEN saveContext(table, [context EXCEPT !.relationshipState = newState(metrics)],
                     fails)
    ELSE [table |-> table, thrown |-> FALSE]

\* one relationshipProvider.get for the user: the table it leaves and what
\* it found on the way
relationshipProviderGet(table, userId, messages, profiles, fails) ==
    LET loaded == getOrCreateRelationshipContext(table, userId, fails)
        context == [loaded.context EXCEPT !.lastInteraction = Now]
        recentInteractions == getRecentInteractions(messages, fails)
        metrics == calculateRelationshipMetrics(profiles, recentInteractions, fails)
        updated == updateRelationshipState(loaded.table, context, metrics, fails)
    IN  [result |-> IF updated.thrown THEN "failed" ELSE "done",
         table |-> updated.table,
         metrics |-> metrics,
         newState |-> newState(metrics)]

----------------------------------------------------------------------------
(* validate of the stage actions, as the host calls it *)

StageActions == {"EVALUATE_USER", "ANALYZE_EMOTION", "DETERMINE_RESPONSE"}

\* what validate returns: readFails says whether the read of the table
\* raises, which each validate catches; text is the message's content text
validate(name, table, message, text, readFails) ==
    IF readFails
    THEN FALSE
    ELSE CASE name = "EVALUATE_USER" -> userEvaluationValidate(table, message)
           [] name = "ANALYZE_EMOTION" -> emotionAnalysisValidate(table, message, text)
           [] name = "DETERMINE_RESPONSE" -> responseModeValidate(table, message)

----------------------------------------------------------------------------
(* part_004 and part_005: the metrics aggregators over a history *)

\* the sum of a sequence of rationals
RECURSIVE RatSum(_)
RatSum(s) == IF s = <<>> THEN Rat(0, 1) ELSE RatAdd(Head(s), RatSum(Tail(s)))

\* the emotional states of the last n entries of a history
LastEmotions(history, n) ==
    LET recent == SliceLast(history, n)
    IN  [i \in 1..Len(recent) |-> EntryEmotion(recent[i])]

\* calculateTrend counting over the whole history instead of its last 3 entries
calculateTrendWholeHistory(history) ==
    IF Len(history) < 3 THEN "stable"
    ELSE LET allInteractions == LastEmotions(history, Len(history))
             positiveCount == Len(FilterSeq(allInteractions, {"HAPPY"}))
             negativeCount ==
                Len(FilterSeq(allInteractions, {"SAD", "ANGRY", "FRUSTRATED"}))
         IN  IF positiveCount > negativeCount THEN "improving"
             ELSE IF negativeCount > positiveCount THEN "declining"
             ELSE "stable"

\* part_004: calculateTrend
calculateTrend(history) ==
    IF Len(history) < 3 THEN "stable"
    ELSE LET recentInteractions == LastEmotions(history, 3)
             positiveCount == Len(FilterSeq(recentInteractions, {"HAPPY"}))
             negativeCount ==
                Len(FilterSeq(recentInteractions, {"SAD", "ANGRY", "FRUSTRATED"}))
         IN  IF positiveCount > negativeCount THEN "improving"
             ELSE IF negativeCount > positiveCount THEN "declining"
             ELSE "stable"

\* part_004: the switch of calculateDetailedMetrics
detailedSentiment(emotionalState) ==
    CASE emotionalState = "HAPPY" -> Rat(1, 1)
      [] emotionalState = "FRUSTRATED" -> Rat(3, 10)
      [] emotionalState \in {"SAD", "ANGRY"} -> Rat(0, 1)
      [] OTHER -> Rat(5, 10)

\* calculateDetailedMetrics reporting a credibility score of 5 for every
\* context
calculateDetailedMetricsNeutralScore(context) ==
    LET history == context.interactionHistory
        sentiments == [i \in 1..Len(history) |->
                          detailedSentiment(EntryEmotion(history[i]))]
        averageSentiment ==
            IF Len(sentiments) > 0
            THEN RatDiv(RatSum(sentiments), Rat(Len(sentiments), 1))
            ELSE Rat(5, 10)
    IN  [credibilityScore |-> 5,
         interactionFrequency |-> Len(history),
         averageSentiment |-> averageSentiment,
         recentTrend |-> calculateTrend(history),
         confidenceScore |-> RatMin(Rat(1, 1), Rat(Len(history), 10))]

\* calculateDetailedMetrics without the Math.min of confidenceScore
calculateDetailedMetricsUnclamped(context) ==
    LET history == context.interactionHistory
        sentiments == [i \in 1..Len(history) |->
                          detailedSentiment(EntryEmotion(history[i]))]
        averageSentiment ==
            IF Len(sentiments) > 0
            THEN RatDiv(RatSum(sentiments), Rat(Len(sentiments), 1))
            ELSE Rat(5, 10)
    IN  [credibilityScore |-> context.credibilityScore,
         interactionFrequency |-> Len(history),
         averageSentiment |-> averageSentiment,
         recentTrend |-> calculateTrend(history),
         confidenceScore |-> Rat(Len(history), 10)]

\* part_004: calculateDetailedMetrics, without the time stamp it adds
calculateDetailedMetrics(context) ==
    LET history == context.interactionHistory
        sentiments == [i \in 1..Len(history) |->
                          detailedSentiment(EntryEmotion(history[i]))]
        averageSentiment ==
            IF Len(sentiments) > 0
            THEN RatDiv(RatSum(sentiments), Rat(Len(sentiments), 1))
            ELSE Rat(5, 10)
    IN  [credibilityScore |-> context.credibilityScore,
         interactionFrequency |-> Len(history),
         averageSentiment |-> averageSentiment,
         recentTrend |-> calculateTrend(history),
         confidenceScore |-> RatMin(Rat(1, 1), Rat(Len(history), 10))]

\* part_004: validateInputs of a present context and present metrics whose
\* numbers are exact: "ok", or the error thrown
validateDetailedInputs(metrics) ==
    IF RatLt(metrics.credibilityScore, Rat(CredMin, 1))
       \/ RatLt(Rat(CredMax, 1), metrics.credibilityScore)
    THEN "Invalid credibility score"
    ELSE IF RatLt(metrics.averageSentiment, Rat(0, 1))
            \/ RatLt(Rat(1, 1), metrics.averageSentiment)
    THEN "Invalid sentiment"
    ELSE "ok"

\* part_005: sentimentMap[interaction.emotionalState] || 0.5; the 0 of ANGRY
\* is falsy
mappedSentiment(emotionalState) ==
    LET sentimentMap ==
            [HAPPY |-> Rat(1, 1), SAD |-> Rat(3, 10), ANGRY |-> Rat(0, 1),
             FRUSTRATED |-> Rat(2, 10)]
        mapped == IF emotionalState \in DOMAIN sentimentMap
                  THEN sentimentMap[emotionalState] ELSE Rat(0, 1)
    IN  IF mapped = Rat(0, 1) THEN Rat(5, 10) ELSE mapped

\* part_005: calculateAverageSentiment
calculateAverageSentiment(interactions) ==
    IF Len(interactions) = 0 THEN Rat(0, 1)
    ELSE RatDiv(RatSum([i \in 1..Len(interactions) |->
                           mappedSentiment(EntryEmotion(interactions[i]))]),
                Rat(Len(interactions), 1))

----------------------------------------------------------------------------
(* part_005: analyzeInteractionHistory; a time stamp is a number of hours *)

HoursPerDay == 24

DaysPerWeek == 7

\* Date.getDay of a time stamp: 0 is Sunday, and hour 0 began a Thursday
getDay(timestamp) == ((timestamp \div HoursPerDay) + 4) % DaysPerWeek

\* setHours(0, 0, 0, 0)
startOfDay(timestamp) == timestamp - (timestamp % HoursPerDay)

\* part_005: the intervalStart of an interaction
intervalStartOf(timestamp, intervalType) ==
    IF intervalType = "daily" THEN startOfDay(timestamp)
    ELSE startOfDay(timestamp) - getDay(timestamp) * HoursPerDay

\* part_005: the intervalEnd for an intervalStart
intervalEndOf(intervalStart, intervalType) ==
    IF intervalType = "daily" THEN intervalStart + HoursPerDay
    ELSE intervalStart + DaysPerWeek * HoursPerDay

\* an interaction put into a sequence sorted by time stamp, behind the
\* entries of the same time stamp (Array.prototype.sort is stable)
RECURSIVE insertByTimestamp(_, _)
insertByTimestamp(sorted, interaction) ==
    IF sorted = <<>> THEN <<interaction>>
    ELSE IF Head(sorted).timestamp <= interaction.timestamp
    THEN <<Head(sorted)>> \o insertByTimestamp(Tail(sorted), interaction)
    ELSE <<interaction>> \o sorted

\* [...interactions].sort((a, b) => a.timestamp.getTime() - b.timestamp.getTime())
RECURSIVE sortByTimestamp(_)
sortByTimestamp(interactions) ==
    IF interactions = <<>> THEN <<>>
    ELSE insertByTimestamp(sortByTimestamp(SubSeq(interactions, 1, Len(interactions) - 1)),
                           interactions[Len(interactions)])

\* part_005: the body of the loop of groupInteractionsByTimeInterval, with
\* its test for a new interval
RECURSIVE groupSorted(_, _, _)
groupSorted(sortedInteractions, intervals, intervalType) ==
    IF sortedInteractions = <<>> THEN intervals
    ELSE LET interaction == Head(sortedInteractions)
             intervalStart == intervalStartOf(interaction.timestamp, intervalType)
             intervalEnd == intervalEndOf(intervalStart, intervalType)
             opened ==
                IF intervals = <<>> \/ interaction.timestamp >= intervalEnd
                THEN Append(intervals, [start |-> intervalStart,
                                        end |-> intervalEnd,
                                        interactions |-> <<>>])
                ELSE intervals
             pushed == [opened EXCEPT ![Len(opened)].interactions =
                                          Append(@, interaction)]
         IN  groupSorted(Tail(sortedInteractions), pushed, intervalType)

\* part_005: groupInteractionsByTimeInterval
groupInteractionsByTimeInterval(interactions, intervalType) ==
    IF Len(interactions) = 0 THEN <<>>
    ELSE groupSorted(sortByTimestamp(interactions), <<>>, intervalType)

\* part_005: calculateEmotionalStateMetrics, the states in the order of their
\* first occurrence (the order of a Map)
calculateEmotionalStateMetrics(interactions) ==
    LET states == [i \in 1..Len(interactions) |-> EntryEmotion(interactions[i])]
        firsts == SelectSeq([i \in 1..Len(states) |-> i],
                            LAMBDA i : \A j \in 1..(i - 1) : states[j] # states[i])
    IN  [k \in 1..Len(firsts) |->
            LET count == Len(FilterSeq(states, {states[firsts[k]]}))
            IN  [state |-> states[firsts[k]],
                 count |-> count,
                 percentage |-> RatMul(Rat(count, Len(interactions)), Rat(100, 1))]]

RatAbs(x) == IF IsNaN(x) THEN NaN ELSE Rat(Abs(x.num), x.den)

\* part_005: the events detectSignificantEvents pushes for the interval at
\* index (from 2 on)
eventsAt(intervals, index) ==
    LET interval == intervals[index]
        prevInterval == intervals[index - 1]
        sentimentChange ==
            RatSub(calculateAverageSentiment(interval.interactions),
                   calculateAverageSentiment(prevInterval.interactions))
        frequencyChange ==
            Len(interval.interactions) - Len(prevInterval.interactions)
        positive == RatLt(Rat(0, 1), sentimentChange)
    IN  (IF RatGe(RatAbs(sentimentChange), Rat(3, 10))
         THEN <<[date |-> interval.start,
                 description |-> IF positive
                                 THEN "Significant improvement in sentiment"
                                 ELSE "Significant decline in sentiment",
                 impact |-> IF positive THEN "positive" ELSE "negative"]>>
         ELSE <<>>)
        \o
        (IF Abs(frequencyChange) >= 3
         THEN <<[date |-> interval.start,
                 description |-> IF frequencyChange > 0
                                 THEN "Notable increase in interaction frequency"
                                 ELSE "Notable decrease in interaction frequency",
                 impact |-> IF frequencyChange > 0 THEN "positive" ELSE "neutral"]>>
         ELSE <<>>)

\* part_005: detectSignificantEvents
RECURSIVE eventsUpTo(_, _)
eventsUpTo(intervals, index) ==
    IF index < 2 THEN <<>>
    ELSE eventsUpTo(intervals, index - 1) \o eventsAt(intervals, index)

detectSignificantEvents(intervals) == eventsUpTo(intervals, Len(intervals))

\* part_005: analyzeInteractionHistory
analyzeInteractionHistory(context) ==
    LET interactionHistory == context.interactionHistory
    IN  IF Len(interactionHistory) = 0
        THEN [totalInteractions |-> 0,
              timeIntervals |-> [daily |-> <<>>, weekly |-> <<>>],
              emotionalStates |-> <<>>,
              averageSentiment |-> Rat(0, 1),
              trendAnalysis |-> [overall |-> "stable", confidence |-> Rat(0, 1),
                                 significantEvents |-> <<>>]]
        ELSE
        LET dailyIntervals == groupInteractionsByTimeInterval(interactionHistory, "daily")
            weeklyIntervals == groupInteractionsByTimeInterval(interactionHistory, "weekly")
            recentIntervals == SliceLast(weeklyIntervals, 4)
            recentSentiments ==
                [i \in 1..Len(recentIntervals) |->
                    calculateAverageSentiment(recentIntervals[i].interactions)]
            sentimentChanges ==
                [i \in 1..(Len(recentSentiments) - 1) |->
                    RatSub(recentSentiments[i + 1], recentSentiments[i])]
            averageChange ==
                RatDiv(RatSum(sentimentChanges), Rat(Len(sentimentChanges), 1))
            trended == Len(recentSentiments) >= 2
        IN  [totalInteractions |-> Len(interactionHistory),
             timeIntervals |-> [daily |-> dailyIntervals, weekly |-> weeklyIntervals],
             emotionalStates |-> calculateEmotionalStateMetrics(interactionHistory),
             averageSentiment |-> calculateAverageSentiment(interactionHistory),
             trendAnalysis |->
                [overall |-> IF ~trended THEN "stable"
                             ELSE IF RatLt(Rat(1, 10), averageChange) THEN "improving"
                             ELSE IF RatLt(averageChange, Rat(-1, 10)) THEN "declining"
                             ELSE "stable",
                 confidence |-> IF ~trended THEN Rat(0, 1)
                                ELSE RatMin(Rat(1, 1),
                                            RatMul(RatAbs(averageChange), Rat(2, 1))),
                 significantEvents |-> detectSignificantEvents(weeklyIntervals)]]

----------------------------------------------------------------------------
(* The values of the variables a specification does not use *)

NoRecords == [monitoring_failures |-> 0, interaction_metrics |-> 0]

NoOp ==
    [name |-> "none", userId |-> "", roomId |-> "", result |-> "none",
     error |-> "", loaded |-> <<>>, wrote |-> <<>>, replaced |-> <<>>,
     detail |-> "", analysis |-> <<>>]

PipeIdle ==
    /\ store = [r \in Rooms |-> <<>>]
    /\ loops = <<>>
    /\ records = NoRecords
    /\ op = NoOp

RelIdle ==
    /\ ctx = createTestContext("STRANGER")
    /\ persisted = createMemoryContent(createTestContext("STRANGER"))
    /\ call = NoCall

NoScore ==
    [done |-> FALSE, profile |-> NoProfile, history |-> NoHistoryAnalysis,
     result |-> Rat(0, 1)]

ScoreIdle == score = NoScore

NoGet ==
    [result |-> "none", fails |-> {}, before |-> <<>>,
     metrics |-> [credibilityScore |-> Rat(0, 1), interactionFrequency |-> 0,
                  averageSentiment |-> Rat(0, 1)],
     newState |-> "STRANGER"]

ProvIdle ==
    /\ provTable = <<>>
    /\ provGet = NoGet

NoCalc == [done |-> FALSE, fn |-> "none"]

CalcIdle == calc = NoCalc

----------------------------------------------------------------------------
(* SpecTrim *)

\* the history lengths drawn: short ones and those around the limit
HistoryLengths ==
    {0, 1} \cup ((HistoryLimit - MaxNew)..(HistoryLimit + MaxOver))

\* the message batches drawn
RECURSIVE SeqsUpTo(_, _)
SeqsUpTo(S, n) ==
    IF n = 0 THEN {<<>>}
    ELSE LET shorter == SeqsUpTo(S, n - 1)
         IN  shorter \cup {Append(q, x) : q \in {r \in shorter : Len(r) = n - 1}, x \in S}

NoTrim ==
    [done |-> FALSE, context |-> createTestContext("STRANGER"),
     messages |-> <<>>, result |-> createTestContext("STRANGER")]

InitTrim ==
    /\ \E n \in HistoryLengths, messages \in SeqsUpTo(Messages, MaxNew) :
          trim = [NoTrim EXCEPT
                    !.context = [createTestContext("STRANGER") EXCEPT
                                    !.interactionHistory = OldHistory(n)],
                    !.messages = messages]
    /\ RelIdle
    /\ PipeIdle
    /\ ScoreIdle
    /\ ProvIdle
    /\ CalcIdle

ProcessNewMessages ==
    /\ ~trim.done
    /\ trim' = [trim EXCEPT !.done = TRUE,
                            !.result = processNewMessages(trim.context, trim.messages)]
    /\ UNCHANGED <<relVars, pipeVars, scoreVars, provVars, calcVars>>

NextTrim == ProcessNewMessages

SpecTrim == InitTrim /\ [][NextTrim]_vars

----------------------------------------------------------------------------
(* SpecRel *)

InitRel ==
    /\ \E s \in RelationshipStates :
          /\ ctx = createTestContext(s)
          /\ persisted = createMemoryContent(createTestContext(s))
    /\ call = NoCall
    /\ trim = NoTrim
    /\ PipeIdle
    /\ ScoreIdle
    /\ ProvIdle
    /\ CalcIdle

\* the write attempts the store fails: the store is reached by valid calls only
WriteFailures(ctxPresent, m) ==
    IF validateInputs(ctxPresent, m) = "ok" THEN SUBSET (1..MaxRetries) ELSE {{}}

Update ==
    /\ call.result = "none"
    /\ Len(ctx.stateChangeLog) < MaxLog
    /\ \E ctxPresent \in BOOLEAN, m \in MetricsArgs :
          \E failures \in WriteFailures(ctxPresent, m) :
              updateDetailedRelationshipStateEnhanced(ctxPresent, m, failures)
    /\ UNCHANGED <<trimVars, pipeVars, scoreVars, provVars, calcVars>>

\* the call has returned (or thrown) and the caller goes on
Return ==
    /\ call.result # "none"
    /\ call' = NoCall
    /\ UNCHANGED <<ctx, persisted>>
    /\ UNCHANGED <<trimVars, pipeVars, scoreVars, provVars, calcVars>>

NextRel == Update \/ Return

SpecRel == InitRel /\ [][NextRel]_vars

----------------------------------------------------------------------------
(* SpecPipe *)

\* a persisted RelationshipContext
PipeContext(currentState, emotionalState, relationshipState, responseMode, credibilityScore, interactionHistory) ==
    [userId |-> "u1", currentState |-> currentState,
     emotionalState |-> emotionalState,
     relationshipState |-> relationshipState,
     responseMode |-> responseMode,
     credibilityScore |-> credibilityScore,
     lastInteraction |-> Now - 1,
     interactionHistory |-> interactionHistory]

\* the histories of the contexts persisted at the start: none, one message of
\* yesterday, or a full history of old interactions
InitHistories ==
    { <<>>,
      <<[timestamp |-> Now - 1, action |-> "MESSAGE",
         emotionalState |-> "HAPPY", responseType |-> "NONE"]>>,
      OldHistory(HistoryLimit) }

\* the contexts persisted at the start: the table is the host's, so the
\* record found there may be in any stage
InitContexts ==
    { PipeContext(cs, es, rs, rm, cred, h) :
        cs \in SystemStates, es \in {"HAPPY", "FRUSTRATED"},
        rs \in {"STRANGER", "FRIEND"}, rm \in {"ONGOING", "DISENGAGEMENT"},
        cred \in {Rat(4, 1), Rat(5, 1), Rat(10, 1)},
        h \in InitHistories }

\* the user's context is persisted under the user's room
\* the table holds a context for the user, or none
InitPipe ==
    /\ \E contexts \in {<<>>} \cup {<<c>> : c \in InitContexts} :
          store = [r \in Rooms |-> contexts]
    /\ loops = <<>>
    /\ records = NoRecords
    /\ op = NoOp
    /\ RelIdle
    /\ trim = NoTrim
    /\ ScoreIdle
    /\ ProvIdle
    /\ CalcIdle

\* the step of a handler: the table it leaves and the record of the step
Perform(name, message, outcome) ==
    /\ store' = outcome.table
    /\ op' = [name |-> name, userId |-> message.userId,
              roomId |-> message.roomId, result |-> outcome.result,
              error |-> outcome.error, loaded |-> outcome.loaded,
              wrote |-> outcome.wrote,
              replaced |-> IF outcome.wrote = <<>> THEN <<>>
                           ELSE store[outcome.wrote[1]],
              detail |-> outcome.detail,
              analysis |-> IF "analysis" \in DOMAIN outcome
                           THEN outcome.analysis ELSE <<>>]

\* The host runs a handler for a message when the action's validate returned
\* true for it; validate and handler are one step here.

\* at most limit loops are started in one behaviour
MonitorSocialWithin(limit) ==
    /\ Len(loops) < limit
    /\ \E message \in PipeMessages :
          /\ monitorValidate(store, message)
          /\ LET outcome == initializeMonitoring(store, message)
             IN  /\ Perform("MONITOR_SOCIAL", message, outcome)
                 /\ loops' = IF outcome.result = "done"
                             THEN Append(loops, NewMonitoringState(message))
                             ELSE loops
    /\ UNCHANGED <<records, relVars, trimVars, scoreVars, provVars, calcVars>>

MonitorSocial == MonitorSocialWithin(MaxLoops)

AnalyzeEmotion ==
    /\ \E message \in PipeMessages, text \in MessageTexts,
          analysis \in AnalysisTexts :
          /\ emotionAnalysisValidate(store, message, text)
          /\ Perform("ANALYZE_EMOTION", message,
                     emotionAnalysisHandler(store, message, text, analysis))
    /\ UNCHANGED <<loops, records, relVars, trimVars, scoreVars, provVars, calcVars>>

EvaluateUser ==
    /\ \E message \in PipeMessages :
          /\ userEvaluationValidate(store, message)
          /\ Perform("EVALUATE_USER", message,
                     userEvaluationHandler(store, message))
    /\ UNCHANGED <<loops, records, relVars, trimVars, scoreVars, provVars, calcVars>>

\* the handler run for a user without a context: the runtime's processActions
\* calls the handler of the action the response names, with no validate
EvaluateUserWithoutContext ==
    /\ \E message \in PipeMessages :
          /\ getMemories(store, message.roomId) = <<>>
          /\ Perform("EVALUATE_USER", message,
                     userEvaluationHandler(store, message))
    /\ UNCHANGED <<loops, records, relVars, trimVars, scoreVars, provVars, calcVars>>

DetermineResponse ==
    /\ \E message \in PipeMessages :
          /\ responseModeValidate(store, message)
          /\ Perform("DETERMINE_RESPONSE", message,
                     responseModeHandler(store, message))
    /\ UNCHANGED <<loops, records, relVars, trimVars, scoreVars, provVars, calcVars>>

\* after the context the handler writes one interaction_metrics record
EndInteraction ==
    /\ records.interaction_metrics < MaxRecords
    /\ \E message \in PipeMessages :
          /\ endActionValidate(store, message)
          /\ LET outcome == endActionHandler(store, message)
             IN  /\ Perform("END_INTERACTION", message, outcome)
                 /\ records' = IF outcome.result = "done"
                               THEN [records EXCEPT !.interaction_metrics = @ + 1]
                               ELSE records
    /\ UNCHANGED <<loops, relVars, trimVars, scoreVars, provVars, calcVars>>

\* the new messages a run of the loop finds
TickBatches ==
    { <<>>, <<[action |-> "", emotionalState |-> "SAD", responseType |-> ""]>> }

\* the table reads of one run: those before the k-th raise, the k-th and the
\* later ones do not (only the reads up to the first that succeeds matter)
ReadsUntil(k) == [n \in 1..(RecoveryMaxAttempts + 2) |-> n < k]

\* a scheduled run of the loop i; a loop that is not active is not scheduled
\* again
MonitoringTick ==
    /\ \E i \in DOMAIN loops, k \in 1..(RecoveryMaxAttempts + 3),
          messages \in TickBatches :
          /\ loops[i].isActive
          /\ LET run == monitoringLoop(store, loops[i], ReadsUntil(k), messages)
             IN  /\ loops' = [loops EXCEPT ![i] = run.state]
                 /\ records' = IF run.failed
                               THEN [records EXCEPT !.monitoring_failures = @ + 1]
                               ELSE records
                 /\ Perform("MONITORING_TICK",
                            [userId |-> loops[i].userId, roomId |-> loops[i].roomId],
                            Outcome("done", "", run.store.loaded, run.store.table,
                                    run.store.wrote, run.detail))
    /\ UNCHANGED <<relVars, trimVars, scoreVars, provVars, calcVars>>

NextPipe ==
    \/ MonitorSocial
    \/ AnalyzeEmotion
    \/ EvaluateUser
    \/ EvaluateUserWithoutContext
    \/ DetermineResponse
    \/ EndInteraction
    \/ MonitoringTick

SpecPipe == InitPipe /\ [][NextPipe]_vars

----------------------------------------------------------------------------
(* SpecValidate *)

\* the contexts validate finds: every stage, with and without an emotional
\* state
ValidateContexts ==
    { PipeContext(cs, es, "STRANGER", "ONGOING", Rat(5, 1), <<>>) :
        cs \in SystemStates, es \in {"HAPPY", ""} }

\* the messages validate is called with: with and without a userId
ValidateMessages == [userId : Users \cup {""}, roomId : Rooms]

InitValidate ==
    /\ \E contexts \in {<<>>} \cup {<<c>> : c \in ValidateContexts} :
          store = [r \in Rooms |-> contexts]
    /\ loops = <<>>
    /\ records = NoRecords
    /\ op = NoOp
    /\ RelIdle
    /\ trim = NoTrim
    /\ ScoreIdle
    /\ ProvIdle
    /\ CalcIdle

Validate ==
    /\ op = NoOp
    /\ \E name \in StageActions, message \in ValidateMessages,
          text \in MessageTexts, readFails \in BOOLEAN :
          op' = [name |-> "VALIDATE", action |-> name,
                 userId |-> message.userId, roomId |-> message.roomId,
                 text |-> text, readFails |-> readFails,
                 valid |-> validate(name, store, message, text, readFails)]
    /\ UNCHANGED <<store, loops, records, relVars, trimVars, scoreVars, provVars, calcVars>>

NextValidate == Validate

SpecValidate == InitValidate /\ [][NextValidate]_vars

-----------------------------------------------------------------------------
(* SpecProv *)

\* n messages of one emotional state, created days ago
MessagesOf(n, emotionalState, days) ==
    [i \in 1..n |-> [createdAt |-> Now - days, action |-> "",
                     emotionalState |-> emotionalState, responseType |-> ""]]

\* what the message store holds for the room
RecentMessages ==
    { <<>>,
      MessagesOf(2, "ANGRY", 0),
      MessagesOf(10, "HAPPY", 1),
      MessagesOf(MaxPast, "HAPPY", 0),
      MessagesOf(MaxPast, "", 8) }

\* what the user_profiles table holds for the user
StoredProfiles ==
    { <<>>,
      <<[accountAge |-> MaxAccountAge, followerCount |-> 99999,
         followingCount |-> 0, verificationStatus |-> TRUE]>> }

\* the contexts persisted for the user at the start: none, or one with a
\* tier and a history of its own
ProvContexts ==
    { PipeContext("IDLE", "SAD", rs, "ONGOING", Rat(5, 1), OldHistory(1)) :
        rs \in {"STRANGER", "FRIEND", "BUSINESS"} }

InitProv ==
    /\ provTable \in {<<>>} \cup {<<c>> : c \in ProvContexts}
    /\ provGet = NoGet
    /\ RelIdle
    /\ trim = NoTrim
    /\ PipeIdle
    /\ ScoreIdle
    /\ CalcIdle

\* the calls the stores fail in one get: none, one, or the read of the
\* context and the save
FailureSets == {{}} \cup {{c} : c \in ProviderCalls} \cup {{"read", "save"}}

Get ==
    /\ \E messages \in RecentMessages, profiles \in StoredProfiles,
          fails \in FailureSets :
          LET outcome == relationshipProviderGet(provTable, "u1", messages,
                                                 profiles, fails)
          IN  /\ provTable' = outcome.table
              /\ provGet' = [result |-> outcome.result, fails |-> fails,
                             before |-> provTable, metrics |-> outcome.metrics,
                             newState |-> outcome.newState]
    /\ UNCHANGED <<relVars, trimVars, pipeVars, scoreVars, calcVars>>

NextProv == Get

SpecProv == InitProv /\ [][NextProv]_vars

-----------------------------------------------------------------------------
(* SpecScore *)

\* account ages in days: none, a year, the five years of the full score, more
AccountAges == {0, 365, 5 * 365, MaxAccountAge}

\* follower counts one below a power of ten, up to past the full score
FollowerCounts == {0, 9, 99, 99999, 999999}

Profiles ==
    [accountAge : AccountAges, followerCount : FollowerCounts,
     followingCount : {0}, verificationStatus : BOOLEAN]

\* past and positive interaction counts
InteractionCounts == {<<0, 0>>, <<25, 0>>, <<25, 25>>, <<MaxPast, 10>>, <<MaxPast, MaxPast>>}

\* days since the last interaction: around the threshold of 7 days and the
\* end of the decay at 37 days
IdleDays == {0, 7, 8, 22, 36, 37, 38, MaxIdleDays}

HistoryAnalyses ==
    { [pastInteractions |-> counts[1], positiveInteractions |-> counts[2],
       negativeInteractions |-> counts[1] - counts[2],
       lastInteractionDate |-> Now - days] :
        counts \in InteractionCounts, days \in IdleDays }

InitScore ==
    /\ \E profile \in Profiles, history \in HistoryAnalyses :
          score = [NoScore EXCEPT !.profile = profile, !.history = history]
    /\ RelIdle
    /\ trim = NoTrim
    /\ PipeIdle
    /\ ProvIdle
    /\ CalcIdle

CalculateCredibilityScore ==
    /\ ~score.done
    /\ score' = [score EXCEPT
                    !.done = TRUE,
                    !.result = calculateCredibilityScore(score.profile, score.history)]
    /\ UNCHANGED <<relVars, trimVars, pipeVars, provVars, calcVars>>

NextScore == CalculateCredibilityScore

SpecScore == InitScore /\ [][NextScore]_vars

-----------------------------------------------------------------------------
(* The specifications of pure functions *)

\* every variable but calc is idle
OthersIdle ==
    /\ RelIdle
    /\ trim = NoTrim
    /\ PipeIdle
    /\ ScoreIdle
    /\ ProvIdle

-----------------------------------------------------------------------------
(* SpecConfig: determineResponseMode applied to a context *)

\* the contexts drawn: every tier and emotion, with other fields varied
ConfigContexts ==
    { PipeContext(cs, es, rs, rm, cred, <<>>) :
        cs \in {"RESPONSE_MODE", "IDLE"}, es \in EmotionalStates,
        rs \in RelationshipStates, rm \in {"ONGOING", "DISENGAGEMENT"},
        cred \in {Rat(4, 1), Rat(5, 1)} }

InitConfig ==
    /\ \E context \in ConfigContexts :
          calc = [done |-> FALSE, fn |-> "determineResponseMode",
                  context |-> context]
    /\ OthersIdle

DetermineResponseMode ==
    /\ calc.fn = "determineResponseMode" /\ ~calc.done
    /\ LET responseModeResult == determineResponseMode(calc.context)
       IN  calc' = [calc EXCEPT !.done = TRUE] @@
                   [config |-> responseModeResult.config,
                    check |-> validateResponseConfig(responseModeResult.config)]
    /\ UNCHANGED otherVars

NextConfig == DetermineResponseMode

SpecConfig == InitConfig /\ [][NextConfig]_vars

-----------------------------------------------------------------------------
(* SpecMetrics: the metrics aggregators applied to a context *)

\* the entry of a history for an emotional state; "" is an entry without
\* one, as DETERMINE_RESPONSE appends
MetricsEntry(i, emotionalState) ==
    IF emotionalState = ""
    THEN [timestamp |-> i, action |-> "STATE_UPDATE", responseType |-> "TRANSITION"]
    ELSE [timestamp |-> i, action |-> "MESSAGE",
          emotionalState |-> emotionalState, responseType |-> "NONE"]

\* the history with the given emotional states, one entry a day
HistoryOf(emotions) == [i \in 1..Len(emotions) |-> MetricsEntry(i, emotions[i])]

\* the histories drawn: every one of up to MaxHistory entries, and long
\* ones of a single emotion around the 10 entries of full confidence
MetricsHistories ==
    { HistoryOf(emotions) :
        emotions \in SeqsUpTo(EmotionalStates \cup {""}, MaxHistory) }
    \cup { HistoryOf([i \in 1..n |-> "FRUSTRATED"]) : n \in {9, 10, MaxLongHistory} }

MetricsContexts ==
    { PipeContext("IDLE", "HAPPY", "FRIEND", "ONGOING", cred, history) :
        cred \in {Rat(0, 1), Rat(75, 10), Rat(10, 1), Rat(11, 1)},
        history \in MetricsHistories }

InitMetrics ==
    /\ \E context \in MetricsContexts :
          calc = [done |-> FALSE, fn |-> "metrics", context |-> context,
                  detailed |-> <<>>, validation |-> "none", analysed |-> <<>>]
    /\ OthersIdle

CalculateDetailedMetrics ==
    /\ calc.fn = "metrics" /\ calc.detailed = <<>>
    /\ LET detailedMetrics == calculateDetailedMetrics(calc.context)
       IN  calc' = [calc EXCEPT !.detailed = <<detailedMetrics>>,
                                !.validation = validateDetailedInputs(detailedMetrics)]
    /\ UNCHANGED otherVars

\* the averageSentiment analyzeInteractionHistory reports
AnalyzeAverageSentiment ==
    /\ calc.fn = "metrics" /\ calc.analysed = <<>>
    /\ calc' = [calc EXCEPT !.analysed =
                    <<calculateAverageSentiment(calc.context.interactionHistory)>>]
    /\ UNCHANGED otherVars

NextMetrics == CalculateDetailedMetrics \/ AnalyzeAverageSentiment

SpecMetrics == InitMetrics /\ [][NextMetrics]_vars

-----------------------------------------------------------------------------
(* SpecBuckets: analyzeInteractionHistory applied to a dated history *)

\* the hours drawn: a Saturday at 10:00 and at 20:00, the Sunday after it at
\* 0:00 and at 9:00, and the Monday of the week after that at 15:00
BucketTimes == {226, 236, 240, 249, 447}

BucketEmotions == {"HAPPY", "SAD", "FRUSTRATED"}

BucketEntries ==
    { [timestamp |-> t, action |-> "MESSAGE", emotionalState |-> e,
       responseType |-> "NONE"] : t \in BucketTimes, e \in BucketEmotions }

\* one entry on the Saturday and a burst of 4 on the Sunday after or on the
\* Monday 8 days later
BurstHistories ==
    { [i \in 1..5 |-> [timestamp |-> IF i = 1 THEN 226 ELSE t,
                       action |-> "MESSAGE", emotionalState |-> e,
                       responseType |-> "NONE"]] :
        t \in {236, 249, 447}, e \in BucketEmotions }

BucketHistories == SeqsUpTo(BucketEntries, MaxBucketHistory) \cup BurstHistories

InitBuckets ==
    /\ \E history \in BucketHistories :
          calc = [done |-> FALSE, fn |-> "analyzeInteractionHistory",
                  context |-> PipeContext("IDLE", "HAPPY", "FRIEND", "ONGOING",
                                          Rat(5, 1), history)]
    /\ OthersIdle

AnalyzeInteractionHistory ==
    /\ calc.fn = "analyzeInteractionHistory" /\ ~calc.done
    /\ calc' = [calc EXCEPT !.done = TRUE] @@
               [metrics |-> analyzeInteractionHistory(calc.context)]
    /\ UNCHANGED otherVars

NextBuckets == AnalyzeInteractionHistory

SpecBuckets == InitBuckets /\ [][NextBuckets]_vars

-----------------------------------------------------------------------------
(* SpecEmotion: the helper functions of the emotion analysis on a text *)

\* the lexicon words of a text, up to MaxWords of each emotion
WordCounts == [EmotionalStates -> 0..MaxWords]

\* the intensifiers of a text
Intensifiers ==
    [degree : 0..MaxMatches, repeated : 0..1, caps : 0..1, urgency : 0..MaxMatches]

\* the narrative of the context: no lexicon word, 2 of FRUSTRATED, or 1 of
\* each of SAD and ANGRY
ContextTexts ==
    { NoWords, [NoWords EXCEPT !["FRUSTRATED"] = 2],
      [NoWords EXCEPT !["SAD"] = 1, !["ANGRY"] = 1] }

InitEmotion ==
    /\ \E words \in WordCounts, intensifiers \in Intensifiers,
          contextAnalysis \in ContextTexts :
          calc = [done |-> FALSE, fn |-> "emotion", words |-> words,
                  intensifiers |-> intensifiers,
                  contextAnalysis |-> contextAnalysis]
    /\ OthersIdle

InferEmotion ==
    /\ calc.fn = "emotion" /\ ~calc.done
    /\ calc' = [calc EXCEPT !.done = TRUE] @@
               [dominantEmotion |->
                    determineDominantEmotion(calc.words, calc.contextAnalysis),
                intensity |-> calculateIntensity(calc.intensifiers)]
    /\ UNCHANGED otherVars

NextEmotion == InferEmotion

SpecEmotion == InitEmotion /\ [][NextEmotion]_vars

-----------------------------------------------------------------------------
(* SpecConfidence: calculateConfidence applied to a list of scores *)

\* the scores drawn: the tenths from 0 to 1
Scores == { Rat(k, 10) : k \in 0..10 }

\* the lists of up to MaxScores scores, highest first
SubEmotionScores ==
    { s \in SeqsUpTo(Scores, MaxScores) :
        \A i \in 1..(Len(s) - 1) : RatGe(s[i], s[i + 1]) }

InitConfidence ==
    /\ \E subEmotions \in SubEmotionScores :
          calc = [done |-> FALSE, fn |-> "calculateConfidence",
                  subEmotions |-> subEmotions]
    /\ OthersIdle

CalculateConfidence ==
    /\ calc.fn = "calculateConfidence" /\ ~calc.done
    /\ calc' = [calc EXCEPT !.done = TRUE] @@
               [confidence |-> calculateConfidence(calc.subEmotions)]
    /\ UNCHANGED otherVars

NextConfidence == CalculateConfidence

SpecConfidence == InitConfidence /\ [][NextConfidence]_vars

-----------------------------------------------------------------------------
(* SpecAnalyze: analyzeEmotion and the requests it makes to the message store *)

\* the context loaded: none, or one whose emotionalState is an emotion, is
\* missing or is no emotion, or one without a userId
AnalyzeContexts ==
    {<<>>}
    \cup { <<[PipeContext("EMOTION_ANALYSIS", es, "FRIEND", "ONGOING", Rat(5, 1), <<>>)
                EXCEPT !.userId = userId]>> :
             es \in {"HAPPY", "SAD", "", "EXCITED"}, userId \in {"u1", ""} }

\* the failing attempts of the three requests
FailurePlans ==
    [sentiment : 0..MaxFails, context : 0..MaxFails, results : {0, 1, MaxFails}]

InitAnalyze ==
    /\ \E text \in MessageTexts, contexts \in AnalyzeContexts,
          analysis \in {NoWords, [NoWords EXCEPT !["HAPPY"] = 4]},
          plan \in FailurePlans :
          calc = [done |-> FALSE, fn |-> "analyzeEmotion", text |-> text,
                  contexts |-> contexts, analysis |-> analysis, plan |-> plan]
    /\ OthersIdle

\* the handler of ANALYZE_EMOTION from its call of analyzeEmotion on:
\* updateEmotionalState is reached only when analyzeEmotion returns
AnalyzeEmotionCalls ==
    /\ calc.fn = "analyzeEmotion" /\ ~calc.done
    /\ LET outcome == analyzeEmotionCalls(calc.text, calc.contexts,
                                          calc.analysis, calc.plan)
       IN  calc' = [calc EXCEPT !.done = TRUE] @@
                   [outcome |-> outcome,
                    contextWritten |->
                        /\ outcome.error = ""
                        /\ ShouldCommit(outcome.result[1], calc.contexts[1])]
    /\ UNCHANGED otherVars

NextAnalyze == AnalyzeEmotionCalls

SpecAnalyze == InitAnalyze /\ [][NextAnalyze]_vars

-----------------------------------------------------------------------------
(* SpecFixed: the engine applied again and again with the same metrics *)

\* a context of any tier, valid metrics, and a store that takes every write
\* or fails every write; calc holds the metrics and the tiers passed through
InitFixed ==
    /\ \E s \in RelationshipStates :
          /\ ctx = createTestContext(s)
          /\ persisted = createMemoryContent(createTestContext(s))
          /\ \E m \in { m \in MetricsArgs : validateInputs(TRUE, m) = "ok" },
                failures \in {{}, 1..MaxRetries} :
                calc = [done |-> FALSE, fn |-> "fixedMetrics", metrics |-> m,
                        failures |-> failures, trail |-> <<s>>]
    /\ call = NoCall
    /\ trim = NoTrim
    /\ PipeIdle
    /\ ScoreIdle
    /\ ProvIdle

\* one more call of updateDetailedRelationshipStateEnhanced with the metrics
Reevaluate ==
    /\ calc.fn = "fixedMetrics"
    /\ Len(calc.trail) <= MaxEvaluations
    /\ updateDetailedRelationshipStateEnhanced(TRUE, calc.metrics, calc.failures)
    /\ calc' = [calc EXCEPT !.trail = Append(@, ctx'.relationshipState)]
    /\ UNCHANGED <<trimVars, pipeVars, scoreVars, provVars>>

NextFixed == Reevaluate

\* the caller keeps evaluating
SpecFixed == InitFixed /\ [][NextFixed]_vars /\ WF_vars(Reevaluate)

-----------------------------------------------------------------------------
(* SpecDefault: a context evaluated with the metrics calculateDetailedMetrics *)
(* computes from it                                                          *)

\* The engine's model counts sentiments in tenths; a sentiment that is a
\* whole number of tenths is handed over exactly.
IsTenths(x) == ~IsNaN(x) /\ (10 * x.num) % x.den = 0

Tenths(x) == (10 * x.num) \div x.den

\* the histories drawn: those of up to MaxHistory entries, and 5 HAPPY
\* entries, whose average sentiment is a whole number of tenths
DefaultHistories ==
    { history \in
        { HistoryOf(emotions) :
            emotions \in SeqsUpTo(EmotionalStates \cup {""}, MaxHistory) }
        \cup { HistoryOf([i \in 1..5 |-> "HAPPY"]) } :
        IsTenths(calculateDetailedMetrics(
                    [interactionHistory |-> history,
                     credibilityScore |-> 0]).averageSentiment) }

\* the default context of a user with a history, and for comparison the same
\* context with a credibility score of 5; the scores are whole points
DefaultContexts ==
    { [defaultRelationshipContext EXCEPT
          !.userId = "u1", !.credibilityScore = credibilityScore,
          !.interactionHistory = history] @@ [stateChangeLog |-> <<>>] :
        credibilityScore \in {0, 5}, history \in DefaultHistories }

InitDefault ==
    /\ \E context \in DefaultContexts :
          /\ ctx = context
          /\ persisted = createMemoryContent(context)
    /\ call = NoCall
    /\ calc = [done |-> FALSE, fn |-> "detailedMetrics", evaluations |-> 0]
    /\ trim = NoTrim
    /\ PipeIdle
    /\ ScoreIdle
    /\ ProvIdle

\* updateDetailedRelationshipStateEnhanced(runtime, context,
\* await calculateDetailedMetrics(runtime, context))
EvaluateDetailed ==
    /\ calc.fn = "detailedMetrics"
    /\ calc.evaluations < MaxEvaluations
    /\ LET detailedMetrics == calculateDetailedMetrics(ctx)
           metrics == [present |-> TRUE,
                       credibilityScore |-> detailedMetrics.credibilityScore,
                       interactionFrequency |-> detailedMetrics.interactionFrequency,
                       averageSentiment |-> Tenths(detailedMetrics.averageSentiment)]
       IN  \E failures \in {{}, 1..MaxRetries} :
               updateDetailedRelationshipStateEnhanced(TRUE, metrics, failures)
    /\ calc' = [calc EXCEPT !.evaluations = @ + 1]
    /\ UNCHANGED <<trimVars, pipeVars, scoreVars, provVars>>

NextDefault == EvaluateDetailed

SpecDefault == InitDefault /\ [][NextDefault]_vars

-----------------------------------------------------------------------------
(* SpecRecovery: attemptStateRecovery on the outcomes of its calls of       *)
(* updateMonitoringState.  The function tells a MonitorStateError flagged   *)
(* unrecoverable from any other error; the outcomes drawn have both.        *)

\* the outcomes of one call of updateMonitoringState: it returns, with the
\* loop's lastUpdate moved or not, or it throws an error
CallOutcomes ==
    [error : {""}, recoverable : {TRUE}, lastUpdate : {Now - 1, Now}]
        \cup [error : {"UPDATE_FAILED", "MISSING_CONTEXT", "INVALID_CONTEXT"},
              recoverable : BOOLEAN, lastUpdate : {Now - 1}]

InitRecovery ==
    /\ \E calls \in [1..RecoveryMaxAttempts -> CallOutcomes] :
          calc = [done |-> FALSE, fn |-> "attemptStateRecovery", calls |-> calls]
    /\ OthersIdle

AttemptStateRecovery ==
    /\ calc.fn = "attemptStateRecovery"
    /\ ~calc.done
    /\ calc' = [calc EXCEPT !.done = TRUE] @@
               [result |-> attemptStateRecovery(calc.calls)]
    /\ UNCHANGED otherVars

NextRecovery == AttemptStateRecovery

SpecRecovery == InitRecovery /\ [][NextRecovery]_vars

-----------------------------------------------------------------------------
(* Properties of the relationship state engine (SpecRel) *)

\* the last call has returned or thrown
Called == call.result # "none"

\* the arguments of the last call pass the documented input contract
ValidArgs ==
    /\ call.ctxPresent
    /\ call.metrics.present
    /\ call.metrics.credibilityScore >= 0 /\ call.metrics.credibilityScore <= 10
    /\ call.metrics.averageSentiment >= 0 /\ call.metrics.averageSentiment <= 10

\* C1: with valid metrics whose credibilityScore is below 2 the tier after the
\* call is ADVERSARY, whatever the prior tier, frequency and sentiment are,
\* and the per-state table is not evaluated.
C1_OverrideForcesAdversary ==
    (Called /\ ValidArgs /\ call.metrics.credibilityScore < 2)
        => /\ ctx.relationshipState = "ADVERSARY"
           /\ ~call.tableEvaluated

C1_Witness ==
    /\ call.result = "done"
    /\ call.metrics.credibilityScore = 1
    /\ call.metrics.averageSentiment = 10
    /\ call.metrics.interactionFrequency = 20
    /\ call.before.relationshipState = "FRIEND"
    /\ ctx.relationshipState = "ADVERSARY"

\* The per-state table of the specification, in table order.
TableRows ==
    << [current |-> "STRANGER",     next |-> "ACQUAINTANCE"],
       [current |-> "STRANGER",     next |-> "BUSINESS"],
       [current |-> "ACQUAINTANCE", next |-> "FRIEND"],
       [current |-> "ACQUAINTANCE", next |-> "STRANGER"],
       [current |-> "FRIEND",       next |-> "PARTNER"],
       [current |-> "FRIEND",       next |-> "ACQUAINTANCE"],
       [current |-> "PARTNER",      next |-> "FRIEND"],
       [current |-> "BUSINESS",     next |-> "COMPETITOR"],
       [current |-> "BUSINESS",     next |-> "PARTNER"],
       [current |-> "COMPETITOR",   next |-> "BUSINESS"],
       [current |-> "COMPETITOR",   next |-> "ADVERSARY"] >>

\* The Condition column of row i (sentiment in tenths).
RowCondition(i, cred, freq, sent) ==
    CASE i = 1  -> freq >= 5 /\ sent > 5
      [] i = 2  -> cred >= 7 /\ sent >= 8
      [] i = 3  -> cred >= 8 /\ sent >= 7
      [] i = 4  -> sent < 3
      [] i = 5  -> cred >= 9 /\ sent >= 9 /\ freq >= 20
      [] i = 6  -> sent < 4 \/ cred < 6
      [] i = 7  -> sent < 6 \/ cred < 7
      [] i = 8  -> cred < 5
      [] i = 9  -> sent >= 8 /\ freq >= 15
      [] i = 10 -> cred >= 6 /\ sent >= 6
      [] i = 11 -> sent < 2

\* the rows of the table that match a tier and metrics
MatchingRows(s, m) ==
    {i \in 1..Len(TableRows) :
        /\ TableRows[i].current = s
        /\ RowCondition(i, m.credibilityScore, m.interactionFrequency,
                        m.averageSentiment)}

\* the Next column of the first matching row, the tier itself when none matches
TableNext(s, m) ==
    IF MatchingRows(s, m) = {} THEN s
    ELSE TableRows[CHOOSE i \in MatchingRows(s, m) :
                       \A j \in MatchingRows(s, m) : i <= j].next

\* C2: with valid metrics whose credibilityScore is at least 2 the tier after
\* the call is the Next column of the first matching row of the table, and
\* the prior tier when no row matches (so for the tiers that have no row).
C2_TableDecidesNextState ==
    (Called /\ ValidArgs /\ call.metrics.credibilityScore >= 2)
        => ctx.relationshipState = TableNext(call.before.relationshipState, call.metrics)

\* both STRANGER rows match and the first one wins
C2_Witness ==
    /\ call.result = "done"
    /\ call.before.relationshipState = "STRANGER"
    /\ call.metrics.credibilityScore = 7
    /\ call.metrics.averageSentiment = 8
    /\ call.metrics.interactionFrequency = 5
    /\ ctx.relationshipState = "ACQUAINTANCE"

\* s is t with entries appended
IsPrefix(t, s) == Len(t) <= Len(s) /\ SubSeq(s, 1, Len(t)) = t

\* C3: a successful call appends exactly one entry to stateChangeLog when it
\* changed the tier and none when it left the tier unchanged; the entry
\* records the tier before and after the call and a non-empty reason, and the
\* earlier entries are kept.
C3_OneEntryPerChange ==
    call.result = "done" =>
        LET old == call.before.stateChangeLog
            new == ctx.stateChangeLog
        IN  /\ IsPrefix(old, new)
            /\ IF ctx.relationshipState # call.before.relationshipState
               THEN /\ Len(new) = Len(old) + 1
                    /\ new[Len(new)].previousState = call.before.relationshipState
                    /\ new[Len(new)].newState = ctx.relationshipState
                    /\ new[Len(new)].reason # ""
               ELSE new = old

\* C4: a call with a missing context or metrics, a credibilityScore outside
\* [0,10] or an averageSentiment outside [0,1] fails with a validation error,
\* makes no store write, and leaves the tier and stateChangeLog as they were.
C4_InvalidInputRejected ==
    (Called /\ ~ValidArgs)
        => /\ call.result = "failed"
           /\ call.error \in {"Invalid input", "Invalid credibility score",
                              "Invalid sentiment"}
           /\ call.attempts = 0
           /\ persisted = call.persistedBefore
           /\ ctx.relationshipState = call.before.relationshipState
           /\ ctx.stateChangeLog = call.before.stateChangeLog

\* metrics that would move STRANGER to ACQUAINTANCE, but for the sentiment
C4_Witness ==
    /\ call.result = "failed"
    /\ call.ctxPresent
    /\ call.metrics.present
    /\ call.metrics.credibilityScore = 5
    /\ call.metrics.interactionFrequency = 5
    /\ call.metrics.averageSentiment = 11
    /\ call.before.relationshipState = "STRANGER"
    /\ call.error = "Invalid sentiment"

\* C5: when the write fails on the first and second attempt and succeeds on
\* the third, the call succeeds after exactly 3 write attempts and the
\* persisted context carries the tier the evaluation computed, whether or not
\* the tier changed.
C5_ThirdAttemptPersists ==
    (Called /\ ValidArgs /\ call.failures = {1, 2})
        => /\ call.result = "done"
           /\ call.attempts = 3
           /\ persisted.present
           /\ persisted.content.relationshipState = ctx.relationshipState
           /\ persisted.content.relationshipState
                 = IF call.metrics.credibilityScore < 2 THEN "ADVERSARY"
                   ELSE TableNext(call.before.relationshipState, call.metrics)

C5_Witness ==
    /\ call.result = "done"
    /\ call.failures = {1, 2}
    /\ call.attempts = 3
    /\ call.before.relationshipState = "ACQUAINTANCE"
    /\ persisted.content.relationshipState = "FRIEND"
    /\ call.persistedBefore.content.relationshipState = "ACQUAINTANCE"

\* C6: when every write fails the call makes exactly 3 attempts, waits the
\* base delay and then twice the base delay between them and not after the
\* last, fails with the error of the third attempt, and the persisted
\* context is unchanged.
C6_RetriesExhausted ==
    (Called /\ ValidArgs /\ call.failures = {1, 2, 3})
        => /\ call.result = "failed"
           /\ call.error = "store"
           /\ call.attempts = 3
           /\ call.delays = <<1000, 2000>>
           /\ call.thrown = 3
           /\ persisted = call.persistedBefore

C6_Witness ==
    /\ call.result = "failed"
    /\ call.error = "store"
    /\ call.failures = {1, 2, 3}
    /\ call.before.relationshipState = "STRANGER"
    /\ ctx.relationshipState = "ACQUAINTANCE"
    /\ persisted.content.relationshipState = "STRANGER"

----------------------------------------------------------------------------
(* Properties of processNewMessages (SpecTrim) *)

\* the entries the messages of the batch stand for, in batch order
NewEntries ==
    [i \in 1..Len(trim.messages) |-> MessageEntry(trim.context, trim.messages[i])]

\* C10: for a history of h entries and m new messages the returned history is
\* the last min(100, h + m) entries of the old history followed by the m new
\* entries, oldest first; when h + m > 100 the h + m - 100 oldest are dropped.
C10_TrimKeepsMostRecent ==
    trim.done =>
        LET old   == trim.context.interactionHistory
            all   == old \o NewEntries
            h     == Len(old)
            m     == Len(trim.messages)
            keep  == Min(100, h + m)
            res   == trim.result.interactionHistory
        IN  /\ Len(res) = keep
            /\ \A i \in 1..keep : res[i] = all[h + m - keep + i]
            /\ (h + m > 100) => res[1] = all[h + m - 100 + 1]

\* 99 old entries and 3 new ones: the 2 oldest are dropped
C10_Witness ==
    /\ trim.done
    /\ Len(trim.context.interactionHistory) = 99
    /\ Len(trim.messages) = 3
    /\ Len(trim.result.interactionHistory) = 100
    /\ trim.result.interactionHistory[1].timestamp = 3
    /\ trim.result.interactionHistory[100].timestamp = Now

----------------------------------------------------------------------------
(* Properties of the pipeline stages (SpecPipe) *)

\* the context persisted under a room, the room holding one
PersistedContext(room) == store[room][1]

\* the last step wrote a context over a persisted one
Overwrote == op.wrote # <<>> /\ op.replaced # <<>>

\* the adjacency table of legal stage changes
AdjacencyTable ==
    { <<"IDLE", "EMOTION_ANALYSIS">>, <<"IDLE", "RESPONSE_MODE">>,
      <<"EMOTION_ANALYSIS", "RESPONSE_MODE">>, <<"EMOTION_ANALYSIS", "MONITORING">>,
      <<"RESPONSE_MODE", "MONITORING">>, <<"RESPONSE_MODE", "IDLE">>,
      <<"MONITORING", "EMOTION_ANALYSIS">>, <<"MONITORING", "IDLE">>,
      <<"USER_EVALUATION", "IDLE">>, <<"USER_EVALUATION", "EMOTION_ANALYSIS">> }

\* C7: every change of the persisted currentState made by an operation is a
\* pair (from, to) of the adjacency table of validateStateTransition.
C7_StageChangesAreLegal ==
    (Overwrote
     /\ op.replaced[1].currentState # PersistedContext(op.wrote[1]).currentState)
        => <<op.replaced[1].currentState,
             PersistedContext(op.wrote[1]).currentState>> \in AdjacencyTable

\* C8: DETERMINE_RESPONSE run on a context in RESPONSE_MODE completes and
\* persists IDLE when responseMode is DISENGAGEMENT, otherwise MONITORING
\* when credibilityScore < 5, otherwise EMOTION_ANALYSIS.
C8_NextStagePersisted ==
    (op.name = "DETERMINE_RESPONSE"
     /\ op.loaded # <<>>
     /\ op.loaded[1].currentState = "RESPONSE_MODE")
        => /\ op.result = "done"
           /\ op.wrote # <<>>
           /\ PersistedContext(op.wrote[1]).currentState =
                IF op.loaded[1].responseMode = "DISENGAGEMENT" THEN "IDLE"
                ELSE IF RatLt(op.loaded[1].credibilityScore, Rat(5, 1))
                THEN "MONITORING"
                ELSE "EMOTION_ANALYSIS"

\* C9: every persisted context has at most 100 interactionHistory entries.
C9_HistoryBounded ==
    \A room \in Rooms :
        store[room] # <<>> => Len(PersistedContext(room).interactionHistory) <= 100

\* the last step was a run of the handler of the action name
Ran(name) == op.name = name

\* the only room of the last step's message holds what the handler loaded
StoreAsLoaded == op.wrote = <<>> /\ store[op.roomId] = op.loaded

\* C11: the context END_INTERACTION persists has currentState IDLE and
\* responseMode INITIAL, the relationshipState and credibilityScore of the
\* loaded context, and the loaded history followed by one END_INTERACTION
\* entry; a run that fails (generateSummary throws on an empty history)
\* writes nothing, so no history entry is ever removed.
C11_EndPreservesTierAndHistory ==
    Ran("END_INTERACTION") =>
        IF op.result = "done"
        THEN /\ op.wrote = <<op.userId>>
             /\ LET after == PersistedContext(op.userId)
                    loaded == op.loaded[1]
                IN  /\ after.currentState = "IDLE"
                    /\ after.responseMode = "INITIAL"
                    /\ after.relationshipState = loaded.relationshipState
                    /\ after.credibilityScore = loaded.credibilityScore
                    /\ Len(after.interactionHistory) =
                            Len(loaded.interactionHistory) + 1
                    /\ IsPrefix(loaded.interactionHistory, after.interactionHistory)
                    /\ after.interactionHistory[Len(after.interactionHistory)].action
                            = "END_INTERACTION"
        ELSE StoreAsLoaded

\* an interaction in MONITORING with a full history is ended
C11_Witness ==
    /\ Ran("END_INTERACTION")
    /\ op.result = "done"
    /\ op.loaded[1].currentState = "MONITORING"
    /\ Len(op.loaded[1].interactionHistory) >= HistoryLimit
    /\ PersistedContext(op.userId).currentState = "IDLE"

\* the entry that follows the loaded history in the persisted one
AppendedEntry ==
    LET history == PersistedContext(op.wrote[1]).interactionHistory
    IN  history[Len(history)]

InScoreRange(x) == RatGe(x, Rat(0, 1)) /\ RatGe(Rat(10, 1), x)

\* C16: when the loaded context has a credibilityScore in [0, 10], the
\* credibilityScore EVALUATE_USER persists is a number in [0, 10].
C16_EvaluatedScoreInRange ==
    (/\ Ran("EVALUATE_USER")
     /\ op.wrote # <<>>
     /\ InScoreRange(op.loaded[1].credibilityScore))
        => InScoreRange(PersistedContext(op.wrote[1]).credibilityScore)

\* C17: without a context for the message's user the EVALUATE_USER handler
\* fails with the error 'No relationship context found' and writes nothing.
C17_MissingContextReported ==
    (Ran("EVALUATE_USER") /\ op.loaded = <<>>)
        => /\ op.result = "failed"
           /\ op.error = "No relationship context found"
           /\ StoreAsLoaded

-----------------------------------------------------------------------------
(* Further properties of the relationship state engine (SpecRel) *)

\* the metrics that pass validateInputs
ValidMetrics == { m \in MetricsArgs : validateInputs(TRUE, m) = "ok" }

\* the tier after an evaluation of valid metrics m from the current context
TierAfter(m) == Evaluate(ctx, m).context.relationshipState

\* C13: no tier is terminal: whatever the tier of the context is, some valid
\* metrics make the evaluation yield a different tier.
C13_NoTierIsTerminal ==
    \E m \in ValidMetrics : TierAfter(m) # ctx.relationshipState

\* the entry a call has pushed last
LastEntry(c) == c.stateChangeLog[Len(c.stateChangeLog)]

\* the rule that fired in an evaluation from context c to context after: the
\* override, or the table's rule from the one tier to the other
RuleFired(c, evaluation) ==
    [override |-> ~evaluation.tableEvaluated,
     from |-> c.relationshipState,
     to |-> evaluation.context.relationshipState]

\* the reason contains the phrase.  The reasons logged are the fixed literals
\* of the engine, none of which has one of the phrases asked for as a proper
\* part, so a reason contains a phrase when it is the phrase.
Contains(reason, phrase) == reason = phrase

\* the last call changed the tier by the table's rule from one tier to another
TableRuleFired(from, to) ==
    /\ Called /\ ValidArgs
    /\ call.tableEvaluated
    /\ call.before.relationshipState = from
    /\ ctx.relationshipState = to

\* C19: the reason logged for a transition is fixed by the rule that fired,
\* whatever the metrics are: FRIEND to ACQUAINTANCE logs 'Sentiment dropped
\* significantly', STRANGER to ACQUAINTANCE 'Sufficient interactions and
\* positive sentiment', ACQUAINTANCE to FRIEND 'High credibility and strongly
\* positive sentiment'.
C19_ReasonKeyedToRule ==
    (Called /\ ValidArgs /\ ctx.relationshipState # call.before.relationshipState)
        => /\ \A m \in ValidMetrics :
                 LET other == Evaluate(call.before, m)
                 IN  RuleFired(call.before, other)
                        = RuleFired(call.before, Evaluate(call.before, call.metrics))
                     => LastEntry(other.context).reason = LastEntry(ctx).reason
           /\ TableRuleFired("FRIEND", "ACQUAINTANCE")
                 => Contains(LastEntry(ctx).reason, "Sentiment dropped significantly")
           /\ TableRuleFired("STRANGER", "ACQUAINTANCE")
                 => Contains(LastEntry(ctx).reason,
                             "Sufficient interactions and positive sentiment")
           /\ TableRuleFired("ACQUAINTANCE", "FRIEND")
                 => Contains(LastEntry(ctx).reason,
                             "High credibility and strongly positive sentiment")

\* contexts of a tier that differ in every other field, with no change logged
ContextsOf(tier) ==
    { createTestContext(tier),
      [createTestContext(tier) EXCEPT
          !.userId = "u2", !.currentState = "MONITORING",
          !.emotionalState = "ANGRY", !.responseMode = "DISENGAGEMENT",
          !.credibilityScore = 0, !.interactionHistory = OldHistory(1)] }

\* what an evaluation that took context c to context after logged: the
\* reasons of the entries it pushed
Logged(c, after) ==
    [i \in 1..(Len(after.stateChangeLog) - Len(c.stateChangeLog)) |->
        after.stateChangeLog[Len(c.stateChangeLog) + i].reason]

\* C20: the tier after an evaluation and the reason it logs (or that it logs
\* nothing) are those of every other evaluation from the same tier with the
\* same metrics, whatever the change log, the other fields of the context
\* and the number of evaluations before are.
C20_EvaluationDeterministic ==
    (Called /\ ValidArgs) =>
        \A other \in ContextsOf(call.before.relationshipState) :
            LET after == Evaluate(other, call.metrics).context
            IN  /\ after.relationshipState = ctx.relationshipState
                /\ Logged(other, after) = Logged(call.before, ctx)

\* a second evaluation of a context, from FRIEND, has changed the tier
C20_Witness ==
    /\ Called /\ ValidArgs
    /\ call.before.stateChangeLog # <<>>
    /\ call.before.relationshipState = "FRIEND"
    /\ ctx.relationshipState = "ACQUAINTANCE"
    /\ Logged(call.before, ctx) = <<"Significant decline in relationship metrics">>

-----------------------------------------------------------------------------
(* Properties of the credibility scorer (SpecScore) *)

\* C15: the score is a number in [0, 10], and it is 0 when the last
\* interaction is 37 or more days old; the recency factor is 1 up to 7 days
\* and then falls linearly to 0 over 30 days.
C15_ScoreInRange ==
    score.done =>
        LET days == Now - score.history.lastInteractionDate
            factor == calculateRecencyFactor(score.history.lastInteractionDate)
        IN  /\ ~IsNaN(score.result)
            /\ RatGe(score.result, Rat(0, 1))
            /\ RatGe(Rat(10, 1), score.result)
            /\ days >= 37 => score.result = Rat(0, 1)
            /\ days <= 7 => factor = Rat(1, 1)
            /\ (days > 7 /\ days < 37) => factor = Rat(37 - days, 30)
            /\ days >= 37 => factor = Rat(0, 1)

\* an old, verified, well followed account with many positive interactions,
\* last seen 38 days ago, scores 0
C15_Witness ==
    /\ score.done
    /\ score.profile.accountAge = MaxAccountAge
    /\ score.profile.followerCount = 999999
    /\ score.profile.verificationStatus
    /\ score.history.positiveInteractions = MaxPast
    /\ score.history.lastInteractionDate = Now - 38
    /\ score.result = Rat(0, 1)

-----------------------------------------------------------------------------
(* Properties of the relationship provider (SpecProv) *)

\* C14: a get whose load of the context fails leaves the record persisted
\* for the user before the get as it was.
C14_FailedLoadKeepsPersisted ==
    (provGet.result # "none" /\ "read" \in provGet.fails /\ provGet.before # <<>>)
        => provTable = provGet.before

-----------------------------------------------------------------------------
(* Properties of validate (SpecValidate) *)

\* the stage an action is for
DesignatedStage ==
    [EVALUATE_USER |-> "USER_EVALUATION", ANALYZE_EMOTION |-> "EMOTION_ANALYSIS",
     DETERMINE_RESPONSE |-> "RESPONSE_MODE"]

\* the context validate read is in the stage of the action validated
InDesignatedStage ==
    /\ ~op.readFails
    /\ store[op.roomId] # <<>>
    /\ store[op.roomId][1].currentState = DesignatedStage[op.action]

\* C18: validate returns true only when the loaded context is in the action's
\* stage, for EVALUATE_USER with a userId in the message and for
\* ANALYZE_EMOTION with a text; in every other stage, and when the read of
\* the store fails, it returns false.
C18_ValidateOnlyInStage ==
    Ran("VALIDATE") =>
        /\ op.valid => InDesignatedStage
        /\ (op.valid /\ op.action = "EVALUATE_USER") => op.userId # ""
        /\ (op.valid /\ op.action = "ANALYZE_EMOTION") => op.text # ""
        /\ ~InDesignatedStage => ~op.valid
        /\ op.readFails => ~op.valid

\* EVALUATE_USER's validate has refused a context in another stage
C18_Witness ==
    /\ Ran("VALIDATE")
    /\ op.action = "EVALUATE_USER"
    /\ op.userId # ""
    /\ ~op.readFails
    /\ store[op.roomId] # <<>>
    /\ store[op.roomId][1].currentState = "RESPONSE_MODE"
    /\ ~op.valid

-----------------------------------------------------------------------------
(* Properties of the response configuration (SpecConfig) *)

\* the configuration determineResponseMode has computed
Configured == calc.fn = "determineResponseMode" /\ calc.done

\* the style the tier alone stands for
StyleOf ==
    [STRANGER |-> "formal", ACQUAINTANCE |-> "professional", FRIEND |-> "casual",
     FAMILY |-> "casual", BUSINESS |-> "professional", COMPETITOR |-> "formal",
     PARTNER |-> "friendly", ADVERSARY |-> "formal", ENEMY |-> "formal",
     UNKNOWN |-> "formal"]

\* C21: the configuration is that of every other context with the same tier
\* and emotion; its style is fixed by the tier; an ANGRY user gets a cautious
\* tone and minimal engagement in every tier; and the configuration passes
\* validateResponseConfig.
C21_ConfigFromTierAndEmotion ==
    Configured =>
        /\ \A other \in ConfigContexts :
              (/\ other.relationshipState = calc.context.relationshipState
               /\ other.emotionalState = calc.context.emotionalState)
                 => determineResponseMode(other).config = calc.config
        /\ calc.config.style = StyleOf[calc.context.relationshipState]
        /\ calc.context.emotionalState = "ANGRY"
              => calc.config.tone = "cautious" /\ calc.config.engagement = "minimal"
        /\ calc.check = "ok"

\* an angry friend: the tier's proactive engagement is overridden
C21_Witness ==
    /\ Configured
    /\ calc.context.relationshipState = "FRIEND"
    /\ calc.context.emotionalState = "ANGRY"
    /\ calc.config = Config("casual", "cautious", "deep", "minimal")

-----------------------------------------------------------------------------
(* Properties of the metrics aggregators (SpecMetrics) *)

\* both aggregators have been applied to the context (CalculateDetailedMetrics
\* also hands its metrics to validateInputs, as
\* updateDetailedRelationshipStateEnhanced does with the metrics it is given)
Aggregated == calc.fn = "metrics" /\ calc.detailed # <<>> /\ calc.analysed # <<>>

\* the fixed sentiment value of an emotional state
SentimentValue(emotionalState) ==
    CASE emotionalState = "HAPPY" -> Rat(1, 1)
      [] emotionalState = "FRUSTRATED" -> Rat(3, 10)
      [] emotionalState \in {"SAD", "ANGRY"} -> Rat(0, 1)
      [] OTHER -> Rat(1, 2)

\* the mean of the fixed values over a history, 0.5 for an empty one
MeanSentiment(history) ==
    IF history = <<>> THEN Rat(1, 2)
    ELSE RatDiv(RatSum([i \in 1..Len(history) |->
                           SentimentValue(EntryEmotion(history[i]))]),
                Rat(Len(history), 1))

\* C22: both aggregators report as averageSentiment the mean of the fixed
\* values (happy 1.0, frustrated 0.3, sad and angry 0.0, anything else 0.5)
\* over the history, 0.5 for an empty history, and so agree.
C22_AggregatorsAgree ==
    Aggregated =>
        /\ calc.detailed[1].averageSentiment
              = MeanSentiment(calc.context.interactionHistory)
        /\ calc.analysed[1]
              = MeanSentiment(calc.context.interactionHistory)
        /\ calc.detailed[1].averageSentiment = calc.analysed[1]

\* calculateDetailedMetrics has been applied to the context
Detailed == calc.fn = "metrics" /\ calc.detailed # <<>>

\* the number of entries among the last 3 of a history whose emotional state
\* is in the set
CountInLastThree(history, S) ==
    Cardinality({ i \in (Len(history) - 2)..Len(history) :
                    EntryEmotion(history[i]) \in S })

\* C23: recentTrend is 'stable' for a history of fewer than 3 entries;
\* otherwise it is decided by the last 3 entries alone: 'improving' when the
\* HAPPY ones outnumber the SAD, ANGRY and FRUSTRATED ones, 'declining' when
\* they are outnumbered, 'stable' on a tie.
C23_TrendFromLastThree ==
    Detailed =>
        LET history == calc.context.interactionHistory
            positive == CountInLastThree(history, {"HAPPY"})
            negative == CountInLastThree(history, {"SAD", "ANGRY", "FRUSTRATED"})
        IN  calc.detailed[1].recentTrend =
                IF Len(history) < 3 THEN "stable"
                ELSE IF positive > negative THEN "improving"
                ELSE IF negative > positive THEN "declining"
                ELSE "stable"

\* a history of 4 entries whose oldest entry would turn the tie of the last 3
\* into a majority
C23_Witness ==
    /\ Detailed
    /\ Len(calc.context.interactionHistory) = 4
    /\ EntryEmotion(calc.context.interactionHistory[1]) = "HAPPY"
    /\ CountInLastThree(calc.context.interactionHistory, {"HAPPY"}) = 1
    /\ CountInLastThree(calc.context.interactionHistory, {"SAD", "ANGRY", "FRUSTRATED"}) = 1
    /\ calc.detailed[1].recentTrend = "stable"

\* x is a number in [0, 1]
InUnitRange(x) == RatGe(x, Rat(0, 1)) /\ RatGe(Rat(1, 1), x)

\* C24: for a context with a credibilityScore in [0, 10] and any history,
\* calculateDetailedMetrics returns an averageSentiment in [0, 1], the
\* confidenceScore min(1, length / 10), itself in [0, 1], and the length as
\* interactionFrequency, and validateInputs accepts its output.
C24_DetailedMetricsValid ==
    Detailed /\ InScoreRange(calc.context.credibilityScore) =>
        LET length == Len(calc.context.interactionHistory)
            metrics == calc.detailed[1]
        IN  /\ InUnitRange(metrics.averageSentiment)
            /\ metrics.confidenceScore =
                  IF length >= 10 THEN Rat(1, 1) ELSE Rat(length, 10)
            /\ InUnitRange(metrics.confidenceScore)
            /\ metrics.interactionFrequency = length
            /\ calc.validation = "ok"

\* a history of more than 10 entries, where the confidence saturates
C24_Witness ==
    /\ Detailed
    /\ InScoreRange(calc.context.credibilityScore)
    /\ Len(calc.context.interactionHistory) > 10
    /\ calc.detailed[1].confidenceScore = Rat(1, 1)
    /\ calc.validation = "ok"

-----------------------------------------------------------------------------
(* Properties of the time buckets (SpecBuckets) *)

\* analyzeInteractionHistory has been applied to the history
Analyzed == calc.fn = "analyzeInteractionHistory" /\ calc.done

\* the interactions of all the buckets, in the order of the buckets
RECURSIVE Bucketed(_)
Bucketed(intervals) ==
    IF intervals = <<>> THEN <<>>
    ELSE Head(intervals).interactions \o Bucketed(Tail(intervals))

\* every interaction is in exactly one bucket, the buckets follow each other
\* in time, and each holds the interactions of its own [start, end), which is
\* the calendar day or week of their time stamps
Partitioned(history, intervals, intervalType) ==
    /\ Bucketed(intervals) = sortByTimestamp(history)
    /\ \A k \in 1..Len(intervals) :
          /\ intervals[k].interactions # <<>>
          /\ \A i \in 1..Len(intervals[k].interactions) :
                LET timestamp == intervals[k].interactions[i].timestamp
                IN  /\ intervals[k].start <= timestamp
                    /\ timestamp < intervals[k].end
                    /\ intervals[k].start = intervalStartOf(timestamp, intervalType)
    /\ \A k \in 1..(Len(intervals) - 1) : intervals[k].end <= intervals[k + 1].start

\* C25: groupInteractionsByTimeInterval partitions the sorted history into
\* contiguous buckets, every interaction in the one bucket whose
\* [start, end) holds its time stamp, so interactions of different days are
\* in different daily buckets and those of different weeks in different
\* weekly buckets.
C25_BucketsPartitionHistory ==
    Analyzed =>
        /\ Partitioned(calc.context.interactionHistory,
                       calc.metrics.timeIntervals.daily, "daily")
        /\ Partitioned(calc.context.interactionHistory,
                       calc.metrics.timeIntervals.weekly, "weekly")

\* the starts of the calendar weeks a history has interactions in
WeeksOf(history) ==
    { intervalStartOf(history[i].timestamp, "weekly") : i \in 1..Len(history) }

\* the interactions of a history in the calendar week starting at week
InWeek(history, week) ==
    SelectSeq(history, LAMBDA interaction :
                  intervalStartOf(interaction.timestamp, "weekly") = week)

\* week and next are the starts of adjacent weekly buckets of the history
AdjacentWeeks(history, week, next) ==
    /\ week \in WeeksOf(history) /\ next \in WeeksOf(history)
    /\ week < next
    /\ ~\E between \in WeeksOf(history) : week < between /\ between < next

SentimentEvents ==
    {"Significant improvement in sentiment", "Significant decline in sentiment"}

FrequencyEvents ==
    {"Notable increase in interaction frequency",
     "Notable decrease in interaction frequency"}

\* an event of one of the descriptions is reported for the bucket starting
\* at week
Reported(events, week, descriptions) ==
    \E i \in 1..Len(events) :
        events[i].date = week /\ events[i].description \in descriptions

\* C26: for a history spanning at least two calendar weeks,
\* analyzeInteractionHistory reports a sentiment event for exactly the pairs
\* of adjacent weekly buckets whose average sentiment (as
\* calculateAverageSentiment computes it) differs by at least 0.3, and a
\* frequency event for exactly the pairs whose interaction count differs by
\* at least 3.
C26_EventsBetweenAdjacentWeeks ==
    Analyzed /\ Cardinality(WeeksOf(calc.context.interactionHistory)) >= 2 =>
        LET history == calc.context.interactionHistory
            events == calc.metrics.trendAnalysis.significantEvents
        IN  /\ \A week, next \in WeeksOf(history) :
                  AdjacentWeeks(history, week, next) =>
                      LET sentimentChange ==
                              RatSub(calculateAverageSentiment(InWeek(history, next)),
                                     calculateAverageSentiment(InWeek(history, week)))
                          frequencyChange ==
                              Len(InWeek(history, next)) - Len(InWeek(history, week))
                      IN  /\ Reported(events, next, SentimentEvents)
                                <=> RatGe(RatAbs(sentimentChange), Rat(3, 10))
                          /\ Reported(events, next, FrequencyEvents)
                                <=> Abs(frequencyChange) >= 3
            /\ \A i \in 1..Len(events) :
                  \E week \in WeeksOf(history) :
                      AdjacentWeeks(history, week, events[i].date)

-----------------------------------------------------------------------------
(* Properties of the emotion helpers (SpecEmotion) *)

\* the helpers have been applied to the text
Inferred == calc.fn = "emotion" /\ calc.done

\* the lexicon matches of an emotion over both texts
AggregateCount(emotion) == calc.words[emotion] + calc.contextAnalysis[emotion]

\* the place of an emotion in the declaration order
OrderOf(emotion) == CHOOSE i \in 1..Len(EmotionOrder) : EmotionOrder[i] = emotion

\* C27: determineDominantEmotion returns an emotion of maximal aggregate
\* count over both texts, and among those of maximal count (all counts zero
\* included) the first in the order HAPPY, SAD, ANGRY, FRUSTRATED.
C27_DominantIsFirstMaximal ==
    Inferred =>
        /\ \A e \in EmotionalStates :
              AggregateCount(e) <= AggregateCount(calc.dominantEmotion)
        /\ \A e \in EmotionalStates :
              AggregateCount(e) = AggregateCount(calc.dominantEmotion)
                  => OrderOf(calc.dominantEmotion) <= OrderOf(e)

\* SAD and FRUSTRATED share the highest count and HAPPY has less: SAD wins
C27_Witness ==
    /\ Inferred
    /\ AggregateCount("SAD") = 2 /\ AggregateCount("FRUSTRATED") = 2
    /\ AggregateCount("HAPPY") = 1 /\ AggregateCount("ANGRY") = 1
    /\ calc.dominantEmotion = "SAD"

\* 'I am extremely happy and absolutely delighted with the results!': the
\* HAPPY words happy and delighted, the degree adverb extremely, one
\* exclamation mark
DelightedText ==
    /\ calc.words = [NoWords EXCEPT !["HAPPY"] = 2]
    /\ calc.intensifiers = [degree |-> 1, repeated |-> 0, caps |-> 0, urgency |-> 0]

\* C30: for the text 'I am extremely happy and absolutely delighted with the
\* results!', calculateIntensity returns more than 0.7 and
\* determineDominantEmotion (with a context narrative without lexicon words)
\* returns HAPPY.
C30_DelightedIsIntense ==
    Inferred /\ DelightedText /\ calc.contextAnalysis = NoWords =>
        /\ RatLt(Rat(7, 10), calc.intensity)
        /\ calc.dominantEmotion = "HAPPY"

-----------------------------------------------------------------------------
(* Properties of calculateConfidence (SpecConfidence) *)

\* calculateConfidence has been applied to the list
ConfidenceOf(subEmotions) ==
    calc.fn = "calculateConfidence" /\ calc.done /\ calc.subEmotions = subEmotions

\* 0.3 + 0.4 * (top - second) + 0.3 * top
Separation(top, second) ==
    RatAdd(RatAdd(Rat(3, 10), RatMul(Rat(4, 10), RatSub(top, second))),
           RatMul(Rat(3, 10), top))

\* C28: for a list of scores in [0, 1], highest first, calculateConfidence
\* returns 0.3 + 0.4 * (top - second) + 0.3 * top clamped to [0, 1], second
\* being 0 when absent, so a value in [0, 1]; 0.8 over 0.1 gives more than
\* 0.7, and 0.4, 0.3, 0.3 gives less than 0.5.
C28_ConfidenceFormula ==
    calc.fn = "calculateConfidence" /\ calc.done =>
        LET subEmotions == calc.subEmotions
            second == IF Len(subEmotions) > 1 THEN subEmotions[2] ELSE Rat(0, 1)
        IN  /\ InUnitRange(calc.confidence)
            /\ subEmotions # <<>> =>
                  calc.confidence =
                      RatMax(Rat(0, 1),
                             RatMin(Rat(1, 1), Separation(subEmotions[1], second)))
            /\ ConfidenceOf(<<Rat(8, 10), Rat(1, 10)>>)
                  => RatLt(Rat(7, 10), calc.confidence)
            /\ ConfidenceOf(<<Rat(4, 10), Rat(3, 10), Rat(3, 10)>>)
                  => RatLt(calc.confidence, Rat(5, 10))

\* the mixed emotions 0.4, 0.3, 0.3, of confidence 0.46
C28_Witness ==
    /\ ConfidenceOf(<<Rat(4, 10), Rat(3, 10), Rat(3, 10)>>)
    /\ calc.confidence = Rat(46, 100)

-----------------------------------------------------------------------------
(* Properties of analyzeEmotion (SpecAnalyze) *)

\* analyzeEmotion has been called
AnalyzeCalled == calc.fn = "analyzeEmotion" /\ calc.done

\* the text is empty or blank, or the context has an emotionalState that is
\* not one of HAPPY, SAD, ANGRY, FRUSTRATED
InvalidAnalysisInput ==
    \/ TextTrim(calc.text) = ""
    \/ /\ calc.contexts # <<>>
       /\ calc.contexts[1].emotionalState \notin EmotionalStates

\* C29: analyzeEmotion called with an empty or blank text, or with a context
\* whose emotionalState is no emotion, fails with an error flagged
\* non-retryable before any memory is created in the message store and
\* without any attempt of a retried request; the context is not written.
C29_InvalidInputFailsFirst ==
    AnalyzeCalled /\ InvalidAnalysisInput =>
        /\ calc.outcome.error # ""
        /\ ~calc.outcome.retryable
        /\ calc.outcome.created = 0
        /\ calc.outcome.attempts = 0
        /\ calc.outcome.waits = 0
        /\ ~calc.contextWritten

\* a blank text for a valid context, with a message store whose first
\* createMemory would fail
C29_Witness ==
    /\ AnalyzeCalled
    /\ calc.text = " "
    /\ calc.contexts # <<>> /\ calc.contexts[1].emotionalState = "HAPPY"
    /\ calc.contexts[1].userId # ""
    /\ calc.plan.sentiment = 1
    /\ calc.outcome.error = "INVALID_INPUT"
    /\ calc.outcome.created = 0

-----------------------------------------------------------------------------
(* Properties of repeated evaluation (SpecFixed) *)

\* no tier of the trail comes back after the context has left it
NeverReturns ==
    \A i, j, k \in 1..Len(calc.trail) :
        i < j /\ j < k /\ calc.trail[i] = calc.trail[k]
            => calc.trail[j] = calc.trail[i]

\* an evaluation with the metrics leaves the tier as it is
AtRest ==
    Evaluate(ctx, calc.metrics).context.relationshipState = ctx.relationshipState

\* C32: with fixed valid metrics, repeated evaluation from any tier never
\* returns to a tier it has left, and reaches a tier that further
\* evaluations with those metrics leave unchanged.
C32_NoOscillation == [](calc.fn = "fixedMetrics" => NeverReturns) /\ <>[]AtRest

\* three changes in a row, from PARTNER down to STRANGER, and then rest
C32_Witness ==
    /\ calc.fn = "fixedMetrics"
    /\ Len(calc.trail) >= 5
    /\ SubSeq(calc.trail, 1, 5)
          = <<"PARTNER", "FRIEND", "ACQUAINTANCE", "STRANGER", "STRANGER">>

-----------------------------------------------------------------------------
(* Properties of the reachable tiers and of the frame of the engine (SpecRel) *)

\* the tier the context had before its first logged change
FirstTier ==
    IF ctx.stateChangeLog = <<>> THEN ctx.relationshipState
    ELSE ctx.stateChangeLog[1].previousState

FrameFields ==
    {"userId", "currentState", "emotionalState", "responseMode",
     "credibilityScore", "lastInteraction", "interactionHistory"}

\* C39: a call of updateDetailedRelationshipStateEnhanced, whether it
\* returns or throws, leaves userId, currentState, emotionalState,
\* responseMode, credibilityScore, lastInteraction and interactionHistory of
\* the context as they were; it changes relationshipState and stateChangeLog
\* only, and never copies the credibility score of the metrics.
C39_FrameOfTheEngine ==
    Called =>
        /\ DOMAIN ctx = DOMAIN call.before
        /\ \A field \in FrameFields : ctx[field] = call.before[field]

\* a call whose store write failed after the tier changed, with metrics of
\* another credibility score than the context's
C39_Witness ==
    /\ Called /\ ValidArgs
    /\ call.result = "failed"
    /\ call.metrics.credibilityScore = 9
    /\ ctx.relationshipState # call.before.relationshipState
    /\ ctx.credibilityScore = 5

-----------------------------------------------------------------------------
(* Properties of the default context (SpecDefault) *)

\* the context was created with the defaults and has been evaluated
DefaultEvaluated ==
    /\ calc.fn = "detailedMetrics"
    /\ calc.evaluations >= 1
    /\ FirstTier = "STRANGER"
    /\ call.before.credibilityScore = 0

\* C33: a default context (STRANGER, credibilityScore 0) evaluated with the
\* metrics calculateDetailedMetrics computes from it is ADVERSARY after its
\* first evaluation, whatever its history, and after every later one; its
\* credibilityScore stays 0.
C33_DefaultBecomesAdversary ==
    DefaultEvaluated =>
        /\ call.error \in {"", "store"}
        /\ ctx.relationshipState = "ADVERSARY"
        /\ ctx.credibilityScore = 0

\* the third evaluation of a default context with 5 HAPPY entries
C33_Witness ==
    /\ DefaultEvaluated
    /\ calc.evaluations = 3
    /\ Len(ctx.interactionHistory) = 5
    /\ call.metrics.averageSentiment = 10
    /\ call.before.relationshipState = "ADVERSARY"
    /\ ctx.relationshipState = "ADVERSARY"

-----------------------------------------------------------------------------
(* SpecMonitor: the actions run from a context at rest.  The table holds    *)
(* the user's context in stage IDLE: the default context of the provider or *)
(* one that an earlier interaction left.  From such a table the validates   *)
(* of ANALYZE_EMOTION, EVALUATE_USER and DETERMINE_RESPONSE never return    *)
(* true (C35_OnlyIdleOrMonitoring checks it in every state), so the host    *)
(* never runs their handlers and the steps are those of MONITOR_SOCIAL,     *)
(* END_INTERACTION and the monitoring loops.                                *)

IdleContexts ==
    {[defaultRelationshipContext EXCEPT !.userId = "u1"]}
        \cup { c \in InitContexts : c.currentState = "IDLE" }

InitMonitor ==
    /\ \E c \in IdleContexts : store = [r \in Rooms |-> <<c>>]
    /\ loops = <<>>
    /\ records = NoRecords
    /\ op = NoOp
    /\ RelIdle
    /\ trim = NoTrim
    /\ ScoreIdle
    /\ ProvIdle
    /\ CalcIdle

StartMonitoring == MonitorSocialWithin(MaxStarts)

NextMonitor ==
    \/ StartMonitoring
    \/ EndInteraction
    \/ MonitoringTick

SpecMonitor == InitMonitor /\ [][NextMonitor]_vars

-----------------------------------------------------------------------------
(* SpecKeys: the keys of relationship_contexts.  Messages of two users, each *)
(* in the user's own room or in a room the two share; the table holds a      *)
(* record, or none, under each of the three room ids.                        *)

KeyUsers == {"u1", "u2"}

SharedRoom == "r1"

KeyRooms == KeyUsers \cup {SharedRoom}

KeyMessages ==
    { m \in [userId : KeyUsers, roomId : KeyRooms] :
        m.roomId \in {m.userId, SharedRoom} }

\* the contexts of a user that the table may hold at the start, one in each
\* stage
KeyContexts(userId) ==
    { [PipeContext(cs, "FRUSTRATED", "STRANGER", "ONGOING", Rat(5, 1),
                   <<[timestamp |-> Now - 1, action |-> "MESSAGE",
                      emotionalState |-> "HAPPY", responseType |-> "NONE"]>>)
         EXCEPT !.userId = userId] : cs \in SystemStates }

\* the users whose context a room may hold
KeyOwners(roomId) == IF roomId = SharedRoom THEN KeyUsers ELSE {roomId}

KeyTables ==
    { table \in [KeyRooms -> {<<>>} \cup
                    {<<c>> : c \in UNION {KeyContexts(u) : u \in KeyUsers}}] :
        \A r \in KeyRooms :
            table[r] # <<>> => table[r][1].userId \in KeyOwners(r) }

InitKeys ==
    /\ store \in KeyTables
    /\ loops = <<>>
    /\ records = NoRecords
    /\ op = NoOp
    /\ calc = [done |-> FALSE, fn |-> "keys", invocations |-> 0]
    /\ RelIdle
    /\ trim = NoTrim
    /\ ScoreIdle
    /\ ProvIdle

\* one more invocation of a handler
Invoked ==
    /\ calc.fn = "keys"
    /\ calc.invocations < MaxInvocations
    /\ calc' = [calc EXCEPT !.invocations = @ + 1]

KeyedMonitorSocial ==
    /\ Invoked
    /\ \E message \in KeyMessages :
          /\ monitorValidate(store, message)
          /\ LET outcome == initializeMonitoring(store, message)
             IN  /\ Perform("MONITOR_SOCIAL", message, outcome)
                 /\ loops' = IF outcome.result = "done"
                             THEN Append(loops, NewMonitoringState(message))
                             ELSE loops
    /\ UNCHANGED <<records, relVars, trimVars, scoreVars, provVars>>

KeyedAnalyzeEmotion ==
    /\ Invoked
    /\ \E message \in KeyMessages, analysis \in AnalysisTexts :
          /\ emotionAnalysisValidate(store, message, "text")
          /\ Perform("ANALYZE_EMOTION", message,
                     emotionAnalysisHandler(store, message, "text", analysis))
    /\ UNCHANGED <<loops, records, relVars, trimVars, scoreVars, provVars>>

KeyedEvaluateUser ==
    /\ Invoked
    /\ \E message \in KeyMessages :
          /\ userEvaluationValidate(store, message)
          /\ Perform("EVALUATE_USER", message,
                     userEvaluationHandler(store, message))
    /\ UNCHANGED <<loops, records, relVars, trimVars, scoreVars, provVars>>

KeyedDetermineResponse ==
    /\ Invoked
    /\ \E message \in KeyMessages :
          /\ responseModeValidate(store, message)
          /\ Perform("DETERMINE_RESPONSE", message,
                     responseModeHandler(store, message))
    /\ UNCHANGED <<loops, records, relVars, trimVars, scoreVars, provVars>>

KeyedEndInteraction ==
    /\ Invoked
    /\ \E message \in KeyMessages :
          /\ endActionValidate(store, message)
          /\ LET outcome == endActionHandler(store, message)
             IN  /\ Perform("END_INTERACTION", message, outcome)
                 /\ records' = IF outcome.result = "done"
                               THEN [records EXCEPT !.interaction_metrics = @ + 1]
                               ELSE records
    /\ UNCHANGED <<loops, relVars, trimVars, scoreVars, provVars>>

NextKeys ==
    \/ KeyedMonitorSocial
    \/ KeyedAnalyzeEmotion
    \/ KeyedEvaluateUser
    \/ KeyedDetermineResponse
    \/ KeyedEndInteraction

SpecKeys == InitKeys /\ [][NextKeys]_vars

-----------------------------------------------------------------------------
(* Properties of the store keys (SpecKeys) *)

\* the last step persisted a context
Persisted == op.result = "done" /\ op.wrote # <<>>

\* the next invocation for the message of the last step loads what that step
\* persisted
ReadYourWrites ==
    getMemories(store, op.roomId) = getMemories(store, op.wrote[1])

\* the record a message of another user loads is the one it loaded before
\* the last step
NoInterference ==
    \A message \in KeyMessages :
        message.userId # op.userId /\ message.roomId = op.wrote[1]
            => getMemories(store, message.roomId) = op.replaced

\* C31: every action reads and writes a user's context under one per-user key:
\* for any message, also one whose roomId differs from its userId, the context
\* an action persists is the one the next action invoked for that message
\* loads, and an invocation for one user never alters the record that another
\* user's invocation loads.
C31_OneKeyPerUser == Persisted => ReadYourWrites /\ NoInterference

-----------------------------------------------------------------------------
(* Properties of the actions run from a context at rest (SpecMonitor) *)

\* the stage of the context persisted for the room
StageOf(roomId) == getMemories(store, roomId)[1].currentState

\* no validate of the three analysis actions returns true
AnalysisNeverEnabled ==
    \A message \in PipeMessages :
        /\ \A text \in MessageTexts : ~emotionAnalysisValidate(store, message, text)
        /\ ~userEvaluationValidate(store, message)
        /\ ~responseModeValidate(store, message)

\* C35: from a context in stage IDLE, with every action run only when its
\* validate returns true, the persisted stage is always IDLE or MONITORING:
\* EMOTION_ANALYSIS, USER_EVALUATION and RESPONSE_MODE are never reached, so
\* ANALYZE_EMOTION, EVALUATE_USER and DETERMINE_RESPONSE are never enabled.
C35_OnlyIdleOrMonitoring ==
    \A roomId \in Rooms :
        /\ getMemories(store, roomId) # <<>>
        /\ StageOf(roomId) \in {"IDLE", "MONITORING"}
        /\ AnalysisNeverEnabled

\* the default context was monitored, the loop gave up and set it back to
\* IDLE, and monitoring was started again
C35_Witness ==
    /\ op.name = "MONITOR_SOCIAL"
    /\ op.result = "done"
    /\ StageOf(op.roomId) = "MONITORING"
    /\ records.monitoring_failures = 1
    /\ getMemories(store, op.roomId)[1].responseMode = "INITIAL"
    /\ getMemories(store, op.roomId)[1].credibilityScore = Rat(0, 1)

\* C36: at most one monitoring loop is active for a user at any time: under
\* every interleaving of MONITOR_SOCIAL (run when its validate passes),
\* END_INTERACTION and the runs of the loops, no second loop is started for a
\* user while an earlier loop of that user still reschedules itself.
C36_OneActiveLoopPerUser ==
    \A i, j \in DOMAIN loops :
        i # j /\ loops[i].userId = loops[j].userId
            => ~(loops[i].isActive /\ loops[j].isActive)

\* the step is a run of a monitoring loop whose update succeeded
SuccessfulTick ==
    op'.name = "MONITORING_TICK" /\ op'.detail \in {"updated", "quiet"}

\* the loop i gives up in the step
GivesUp(i) == loops[i].isActive /\ ~loops'[i].isActive

\* C37: a successful run of the loop resets retryAttempts to 0; when the runs
\* failed 3 times in a row and attemptStateRecovery failed as well, the loop
\* sets isActive to false, one monitoring_failures record is written, the
\* persisted currentState is set to IDLE, and the loop never runs again.
C37_LoopGivesUp ==
    [][\A i \in DOMAIN loops :
          /\ SuccessfulTick /\ loops'[i] # loops[i]
                => loops'[i].retryAttempts = 0
          /\ GivesUp(i)
                => /\ loops[i].retryAttempts = MAX_RETRY_ATTEMPTS - 1
                   /\ records'.monitoring_failures = records.monitoring_failures + 1
                   /\ getMemories(store', loops[i].roomId) # <<>>
                   /\ getMemories(store', loops[i].roomId)[1].currentState = "IDLE"
          /\ ~loops[i].isActive => loops'[i] = loops[i]]_vars

\* the step is a run of a monitoring loop that did not give up
TickStep == op'.name = "MONITORING_TICK" /\ op'.detail # "failure"

\* C38: a run of updateMonitoringState never writes relationship_contexts:
\* after any number of runs, also runs that processed new messages, the
\* persisted context is the one persisted before; a successful run with new
\* messages changes only the loop's lastUpdate (and, in monitoringLoop, the
\* retry counter it resets).
C38_TickWritesNothing ==
    [][/\ TickStep => store' = store /\ records' = records /\ op'.wrote = <<>>
       /\ TickStep /\ op'.detail = "updated"
            => \E i \in DOMAIN loops :
                  loops' = [loops EXCEPT ![i].lastUpdate = Now,
                                         ![i].retryAttempts = 0]]_vars

\* a run processed a message that reports the emotion SAD, and the persisted
\* context has neither the emotion nor the entry
C38_Witness ==
    /\ op.name = "MONITORING_TICK"
    /\ op.detail = "updated"
    /\ getMemories(store, op.roomId) = op.loaded
    /\ op.loaded[1].emotionalState # "SAD"
    /\ processNewMessages(op.loaded[1], CHOOSE b \in TickBatches : b # <<>>).emotionalState = "SAD"
    /\ \A i \in DOMAIN op.loaded[1].interactionHistory :
          op.loaded[1].interactionHistory[i].emotionalState # "SAD"

-----------------------------------------------------------------------------
(* Properties of attemptStateRecovery (SpecRecovery) *)

RecoveryTried == calc.fn = "attemptStateRecovery" /\ calc.done

\* the call at which the loop ends: the first that returns or that throws an
\* error flagged unrecoverable, else the last
LastCall ==
    LET ends == { k \in 1..RecoveryMaxAttempts :
                    calc.calls[k].error = "" \/ ~calc.calls[k].recoverable }
    IN  IF ends = {} THEN RecoveryMaxAttempts
        ELSE CHOOSE k \in ends : \A other \in ends : k <= other

\* C40: attemptStateRecovery calls updateMonitoringState at most 3 times; it
\* returns true at the first call that succeeds and false at the first error
\* flagged unrecoverable, with no further call; it returns false after the
\* third failed call without waiting again; between failed calls it waits a
\* delay that doubles each time and never exceeds maxBackoffMs: 1000, then
\* 2000.
C40_RecoveryBounded ==
    RecoveryTried =>
        /\ calc.result.calls = LastCall
        /\ calc.result.calls <= 3
        /\ calc.result.recovered <=> calc.calls[LastCall].error = ""
        /\ Len(calc.result.waits) = LastCall - 1
        /\ calc.result.waits = SubSeq(<<1000, 2000>>, 1, LastCall - 1)
        /\ \A i \in DOMAIN calc.result.waits :
              calc.result.waits[i] <= RecoveryMaxBackoffMs

\* three calls failed with recoverable errors
C40_Witness ==
    /\ RecoveryTried
    /\ \A k \in 1..RecoveryMaxAttempts :
          calc.calls[k].error # "" /\ calc.calls[k].recoverable
    /\ ~calc.result.recovered
    /\ calc.result.calls = 3
    /\ calc.result.waits = <<1000, 2000>>

====
